---- MODULE Spec2Model ----
(***************************************************************************)
(* Model of desktop-app/lib_spellcheck.                                    *)
(*                                                                         *)
(*  - Spec     : SpellingHighlighter (spelling_highlighter.cpp): the cache *)
(*               of misspelled ranges, the edit handler, the debounce      *)
(*               timer and the asynchronous checks.                        *)
(*  - SpecSession : the same handlers in a longer session of edits on a   *)
(*               field that holds one misspelled word.                     *)
(*  - SpecTyping : the same handlers on a field that holds the word "b",  *)
(*               with a dictionary that rejects "b" and "bb".              *)
(*  - SpecLock : updateLanguages with the exclusive lock of a rebuild     *)
(*               taken and released in two steps, and checkSpelling.       *)
(*  - SpecPlatform : one word check by the system spellcheckers           *)
(*               (platform/win, platform/linux).                           *)
(*  - SpecWords : HunspellService's ignored and added words and          *)
(*               checkSpelling, with the engines installed.                *)
(*  - SpecSuggest : one HunspellService::fillSuggestionList request.       *)
(*  - SpecSyntax : TryHighlightSyntax (spellcheck_highlight_syntax.cpp),   *)
(*               its cache and the queued highlighter.                     *)
(*  - SpecLang : HunspellService::updateLanguages                          *)
(*               (third_party/hunspell_controller.cpp): the epoch counter, *)
(*               the background rebuilds and their main-thread completion. *)
(*  - SpecPaste : the edit handler with pasted texts of several           *)
(*               characters.                                               *)
(*  - SpecUrl  : highlightBlock and the links of a block.                  *)
(*  - SpecRequests : overlapping fillSuggestionList requests and          *)
(*               updateLanguages.                                          *)
(*  - SpecRecheck : the edits, the timer and the returning checks, with   *)
(*               the fairness of the asynchronous checks.                  *)
(*  - SpecMenu : the same handlers and the context menu.                   *)
(*  - SpecAccess : the accesses of checkSpelling, ignoreWord, addWord and *)
(*               removeWord to the session word lists.                     *)
(*                                                                         *)
(* Text is a sequence of one-character strings.  Positions are 0-based as  *)
(* in the source; TLA+ sequences are 1-based, so the character at source   *)
(* position p is text[p + 1].  A range is the pair <<first, second>> of    *)
(* std::pair<int, int>: offset and length.                                 *)
(***************************************************************************)
EXTENDS Integers, Sequences, FiniteSets, Bags, TLC

VARIABLES
    doc,                      \* document()->toPlainText(), the live buffer
    tags,                     \* per character: carries an unspellcheckable tag
    lastPlainText,            \* _lastPlainText
    cachedRanges,             \* _cachedRanges
    addedSymbols,             \* _addedSymbols
    removedSymbols,           \* _removedSymbols
    lastPosition,             \* _lastPosition
    enabled,                  \* _enabled
    timerActive,              \* _coldSpellcheckingTimer.isActive()
    countOfCheckingTextAsync, \* _countOfCheckingTextAsync
    inflight,                 \* bag of asynchronous checks not yet returned
    edits,                    \* number of contentsChange calls so far
    last,                     \* the handler that ran last and what it saw
    dictionary,               \* the lengths of the words spelled correctly
    epoch,                    \* *_epoch of HunspellService
    engines,                  \* *_engines: the language of each engine
    activeLanguages,          \* _activeLanguages
    tasks,                    \* the crl::async rebuilds of updateLanguages
    mainQueue,                \* crl::on_main completions not yet run
    ignoredWords,             \* _ignoredWords: the words of each script
    addedWords,               \* _addedWords: the words of each script
    customFile,               \* the words in the custom dictionary file
    engineMutex,              \* the task that holds *_engineMutex, or 0
    Cache,                    \* Cache: hash -> the entities of a code block
    ProcessIdAutoIncrement,   \* ProcessIdAutoIncrement
    highlighterTasks,         \* calls queued on the QueuedHighlighter
    syntaxMain,               \* crl::on_main calls of the highlighter
    returned,                 \* what TryHighlightSyntax returned so far
    calls,                    \* the text of the call of each process id
    suggestionsEpoch,         \* _suggestionsEpoch of HunspellService
    requests,                 \* the fillSuggestionList calls and their place
    lookups,                  \* the background checkSpelling calls
    mainAccess,               \* the word-list call the main thread is in
    wordEntries               \* the entries of _ignoredWords and _addedWords

hlVars == <<doc, tags, lastPlainText, cachedRanges, addedSymbols,
            removedSymbols, lastPosition, enabled, timerActive,
            countOfCheckingTextAsync, inflight, edits, last, dictionary>>

hlState == <<doc, tags, lastPlainText, cachedRanges, addedSymbols,
             removedSymbols, lastPosition, enabled, timerActive,
             countOfCheckingTextAsync, inflight, edits, dictionary>>

langVars == <<epoch, engines, activeLanguages, tasks, mainQueue>>

wordVars == <<ignoredWords, addedWords, customFile, engineMutex>>

syntaxVars == <<Cache, ProcessIdAutoIncrement, highlighterTasks, syntaxMain,
                returned, calls>>

accessVars == <<lookups, mainAccess, wordEntries>>

asyncVars == <<suggestionsEpoch, requests, accessVars>>

vars == <<hlVars, langVars, wordVars, syntaxVars, asyncVars>>

\* The statics of spellcheck_highlight_syntax.cpp before the first call.
SyntaxInit ==
    /\ Cache = <<>>
    /\ ProcessIdAutoIncrement = 0
    /\ highlighterTasks = <<>>
    /\ syntaxMain = <<>>
    /\ returned = <<>>
    /\ calls = <<>>

\* HunspellService before the first request for a suggestion list.
AsyncInit ==
    /\ suggestionsEpoch = 0
    /\ requests = <<>>
    /\ lookups = <<>>
    /\ mainAccess = [op |-> "none", word |-> "", creates |-> FALSE,
                     writes |-> FALSE, raced |-> FALSE]
    /\ wordEntries = {}

----------------------------------------------------------------------------
(* Bounds *)

MaxLen == 3
MaxInitLen == 2
MaxAdd == 1
MaxInFlight == 2
MaxEdits == 2
MaxRanges == 3
MaxSessionEdits == 3

----------------------------------------------------------------------------
(* Characters *)

Letters == {"b"}
Alphabet == Letters \cup {" ", "@"}

IsLetterOrNumber(c) == c \in Letters
IsSpace(c) == c = " "
\* QTextEngine::atWordSeparator: '@' is in Qt's list of word separators.
AtWordSeparator(c) == c = "@"

Min(a, b) == IF a < b THEN a ELSE b

Texts(n) == UNION {[1..k -> Alphabet] : k \in 0..n}

\* QString::mid(pos, length)
Mid(text, pos, length) ==
    IF pos > Len(text) THEN <<>>
    ELSE SubSeq(text, pos + 1, Min(pos + length, Len(text)))

EndOfWord(range) == range[1] + range[2]

IntersectsWordRanges(range, pos2, len2) ==
    LET l1 == range[1]
        r1 == EndOfWord(range) - 1
        l2 == pos2
        r2 == pos2 + len2 - 1
    IN  ~(l1 > r2 \/ l2 > r1)

IntersectsWordRanges2(range, range2) ==
    IntersectsWordRanges(range, range2[1], range2[2])

----------------------------------------------------------------------------
(* The word under a cursor position: QTextCursor::select(WordUnderCursor), *)
(* i.e. movePosition(StartOfWord) then movePosition(EndOfWord, KeepAnchor) *)
(* on a single-block document.                                             *)

RECURSIVE SkipSpaceLeft(_, _)
SkipSpaceLeft(d, q) ==
    IF q > 0 /\ IsSpace(d[q]) THEN SkipSpaceLeft(d, q - 1) ELSE q

RECURSIVE SkipSeparatorLeft(_, _)
SkipSeparatorLeft(d, q) ==
    IF q > 0 /\ AtWordSeparator(d[q]) THEN SkipSeparatorLeft(d, q - 1) ELSE q

RECURSIVE SkipWordLeft(_, _)
SkipWordLeft(d, q) ==
    IF q > 0 /\ ~IsSpace(d[q]) /\ ~AtWordSeparator(d[q])
    THEN SkipWordLeft(d, q - 1) ELSE q

RECURSIVE SkipSeparatorRight(_, _)
SkipSeparatorRight(d, q) ==
    IF q < Len(d) /\ AtWordSeparator(d[q + 1])
    THEN SkipSeparatorRight(d, q + 1) ELSE q

RECURSIVE SkipWordRight(_, _)
SkipWordRight(d, q) ==
    IF q < Len(d) /\ ~IsSpace(d[q + 1]) /\ ~AtWordSeparator(d[q + 1])
    THEN SkipWordRight(d, q + 1) ELSE q

\* QTextLayout::previousCursorPosition(oldPos, SkipWords)
PreviousCursorPosition(d, oldPos) ==
    IF oldPos <= 0 \/ oldPos > Len(d) THEN oldPos
    ELSE LET p1 == SkipSpaceLeft(d, oldPos)
         IN  IF p1 > 0 /\ AtWordSeparator(d[p1])
             THEN SkipSeparatorLeft(d, p1)
             ELSE SkipWordLeft(d, p1)

\* QTextCursor::StartOfWord
StartOfWord(d, p) ==
    IF p = 0 THEN 0
    ELSE IF p = Len(d) /\ (IsSpace(d[p]) \/ AtWordSeparator(d[p])) THEN p
    ELSE PreviousCursorPosition(d, IF p < Len(d) THEN p + 1 ELSE p)

\* QTextCursor::EndOfWord
EndOfWordPosition(d, s) ==
    IF s >= Len(d) THEN s
    ELSE IF AtWordSeparator(d[s + 1]) THEN SkipSeparatorRight(d, s)
    ELSE SkipWordRight(d, s)

\* A word oracle that would find no word: the empty word at the position.
emptyWord(d, position, cursor) == <<position, 0>>

\* SpellingHighlighter::getWordUnderPosition on the live document d.
\* QTextCursor::setPosition ignores a negative position, so _cursor then
\* stays where the previous select left it (cursor: its selection end).
getWordUnderPosition(d, position, cursor) ==
    LET p == IF position < 0 THEN cursor ELSE Min(position, Len(d))
        start == StartOfWord(d, p)
    IN  <<start, EndOfWordPosition(d, start) - start>>

----------------------------------------------------------------------------
(* The dictionary and the text checker.                                    *)

\* Platform::Spellchecker::CheckSpelling: TRUE when the word is spelled
\* correctly.  A dictionary of the model is the set of the lengths of the
\* words it holds; it does not change while the highlighter runs.
CheckSpelling(w) == Len(w) \in dictionary

\* The dictionary that holds the words of even length: "bb" is spelled
\* correctly, "b" and "bbb" are not.
EvenWords == {n \in 0..MaxLen : n % 2 = 0}

\* The dictionary that holds "bbb" only: "b" and "bb" are misspelled.
LongWords == {MaxLen}

\* ::Spellchecker::IsWordSkippable: a word without a character of a
\* supported script (empty, punctuation only) is skippable.
IsWordSkippable(w) == \A i \in 1..Len(w) : ~IsLetterOrNumber(w[i])

\* The word starts of QTextBoundaryFinder: maximal runs of letters.
WordStarts(text) ==
    {i \in 0..(Len(text) - 1) :
        /\ IsLetterOrNumber(text[i + 1])
        /\ (i = 0 \/ ~IsLetterOrNumber(text[i]))}

RECURSIVE LetterRunEnd(_, _)
LetterRunEnd(text, q) ==
    IF q < Len(text) /\ IsLetterOrNumber(text[q + 1])
    THEN LetterRunEnd(text, q + 1) ELSE q

RECURSIVE SortedRanges(_)
SortedRanges(S) ==
    IF S = {} THEN <<>>
    ELSE LET m == CHOOSE x \in S : \A y \in S : x[1] <= y[1]
         IN  <<m>> \o SortedRanges(S \ {m})

\* ::Spellchecker::RangesFromText(text, filterCallback) with the callback of
\* CheckSpellingText: the ranges of the words for which
\* !IsWordSkippable(word) && CheckSpelling(word) is false.
RangesFromText(text) ==
    SortedRanges({<<i, LetterRunEnd(text, i) - i>> : i \in
        {j \in WordStarts(text) :
            LET w == SubSeq(text, j + 1, LetterRunEnd(text, j))
            IN  ~(~IsWordSkippable(w) /\ CheckSpelling(w))}})

\* The background half of invokeCheckText: CheckSpellingText on the
\* dispatched text, then the shift by rangesOffset.
CheckSpellingText(text, rangesOffset) ==
    LET r == RangesFromText(text)
    IN  [i \in DOMAIN r |-> <<r[i][1] + rangesOffset, r[i][2]>>]

----------------------------------------------------------------------------
(* The skip predicate.                                                     *)

\* hasUnspellcheckableTag on the live document: a fragment with an
\* unspellcheckable tag intersects [begin, begin + length).
hasUnspellcheckableTag(tg, begin, length) ==
    LET len == Min(Len(tg) + 1 - begin, length)
    IN  \E frPos \in 0..(Len(tg) - 1) : \E frLen \in 1..(Len(tg) - frPos) :
            /\ \A i \in frPos..(frPos + frLen - 1) : tg[i + 1]
            /\ IntersectsWordRanges(<<frPos, frLen>>, begin, len)

\* IsMentionText; its callers pass a position inside the text.
IsMentionText(text, position) ==
    IF position < 1 \/ position > Len(text) THEN FALSE
    ELSE text[position] = "@"

\* SpellingHighlighter::isSkippableWord(position, length); plain is
\* documentText(), tg the formats of the live document.
isSkippableWord(plain, tg, position, length) ==
    \/ hasUnspellcheckableTag(tg, position, length)
    \/ IsMentionText(plain, position)
    \/ position > Len(plain)
    \/ IsWordSkippable(Mid(plain, position, length))

filterSkippableWords(plain, tg, ranges) ==
    IF Len(plain) = 0 THEN <<>>
    ELSE SelectSeq(ranges,
            LAMBDA range : ~isSkippableWord(plain, tg, range[1], range[2]))

\* SpellingHighlighter::compareDocumentText: 0 when the slice of the
\* snapshot equals the dispatched text.
compareDocumentText(plain, text, textPos, textLen) ==
    IF Len(plain) < textPos + textLen THEN -1
    ELSE IF Len(plain) = 0 THEN -1
    ELSE IF text = Mid(plain, textPos, textLen) THEN 0 ELSE 1

----------------------------------------------------------------------------
(* Asynchronous checks in flight.  A record is one crl::async task whose   *)
(* crl::on_main continuation has not run yet:                              *)
(*   kind  "assign" : invokeCheckText from checkCurrentText                *)
(*         "insert" : invokeCheckText from checkChangedText                *)
(*         "word"   : checkSingleWord                                      *)
(*   pos, len, text : textPosition, textLength and the captured text; for  *)
(*                    "insert" pos is also the wordUnderCursor.first that  *)
(*                    the callback captures                                *)
(*   stale          : an edit happened after the dispatch (history only)   *)

Check(kind, pos, len, text) ==
    [kind |-> kind, pos |-> pos, len |-> len, text |-> text, stale |-> FALSE]

NoCheck == EmptyBag
OneCheck(c) == SetToBag({c})

IsRegion(c) == c.kind \in {"assign", "insert"}

\* The edit handler marks every check in flight as dispatched before it.
MarkStale(B) ==
    LET S == {[c EXCEPT !.stale = TRUE] : c \in BagToSet(B)}
    IN  [c \in S |->
            CopiesIn(c, B) + CopiesIn([c EXCEPT !.stale = FALSE], B)]

\* A checkSingleWord that would never dispatch a check.
skipSingleWord(plain, tg, singleWord) == NoCheck

\* SpellingHighlighter::checkSingleWord: the check it dispatches, if any.
\* The task of a word that the dictionary accepts ends in the background
\* without a continuation, so only a rejected word is kept in flight.
checkSingleWord(plain, tg, singleWord) ==
    IF isSkippableWord(plain, tg, singleWord[1], singleWord[2])
    THEN NoCheck
    ELSE IF CheckSpelling(Mid(plain, singleWord[1], singleWord[2]))
    THEN NoCheck
    ELSE OneCheck(Check("word", singleWord[1], singleWord[2],
                        Mid(plain, singleWord[1], singleWord[2])))

\* SpellingHighlighter::checkChangedText after it has read and reset the
\* accumulators: the check it dispatches, if any.
checkChangedText(d, tg, plain, pos, added, removed, cursor) ==
    LET wordUnderCursor == getWordUnderPosition(d, pos, cursor)
        lastWordNewSelection ==
            getWordUnderPosition(d, pos + added, EndOfWord(wordUnderCursor))
        beginNewSelection == wordUnderCursor[1]
        endNewSelection == EndOfWord(lastWordNewSelection)
    IN  IF wordUnderCursor[2] = 0 THEN NoCheck
        ELSE IF added > 0
        THEN IF wordUnderCursor = lastWordNewSelection
             THEN checkSingleWord(plain, tg, wordUnderCursor)
             ELSE OneCheck(Check("insert", beginNewSelection,
                     endNewSelection - beginNewSelection,
                     Mid(plain, beginNewSelection,
                         endNewSelection - beginNewSelection)))
        ELSE IF removed > 0
        THEN checkSingleWord(plain, tg, wordUnderCursor)
        ELSE NoCheck

\* A callback that would add the result to the ranges instead.
AppendRanges(cached, ranges) == cached \o ranges

\* The callback of checkCurrentText: _cachedRanges = std::move(ranges).
AssignRanges(cached, ranges) == ranges

\* SpellingHighlighter::checkCurrentText on a non-empty document.
checkCurrentText(d, plain) ==
    OneCheck(Check("assign", 0, Len(d), Mid(plain, 0, Len(d))))

\* ranges::insert(_cachedRanges, find_if(first >= at), r)
InsertRanges(cached, at, r) ==
    LET before == {i \in 1..Len(cached) :
                      \A j \in 1..i : cached[j][1] < at}
        n == Cardinality(before)
    IN  SubSeq(cached, 1, n) \o r \o SubSeq(cached, n + 1, Len(cached))

\* AddedSymbol; "" stands for the null QChar.
AddedSymbol(text, position, added) ==
    IF added # 1 \/ position >= Len(text) THEN "" ELSE text[position + 1]

\* The shift lambda of contentsChange.
Shift(ranges, pos, removed, chars) ==
    [i \in DOMAIN ranges |->
        IF ranges[i][1] >= pos + removed
        THEN <<ranges[i][1] + chars, ranges[i][2]>>
        ELSE ranges[i]]

\* A filter that would keep every range.
keepEveryRange(range, wordUnderPos, pos, removed) == TRUE

\* The filter of contentsChange: TRUE for the ranges that are kept.
KeepRange(range, wordUnderPos, pos, removed) ==
    LET isPosNotInWord == pos > EndOfWord(wordUnderPos)
    IN  IF IntersectsWordRanges2(range, wordUnderPos)
        THEN isPosNotInWord
        ELSE ~(\/ IntersectsWordRanges2(range, wordUnderPos)
               \/ (removed > 0 /\ IntersectsWordRanges(range, pos, removed)))

\* The ranges left in _cachedRanges by contentsChange(pos, removed, added)
\* on the (non-empty) document d.
ChangedRanges(cached, d, pos, removed, added) ==
    LET s1 == IF added > 0 THEN Shift(cached, pos, removed, added)
              ELSE cached
        wordUnderPos == getWordUnderPosition(d, pos, 0)
        f == SelectSeq(s1,
                LAMBDA range : KeepRange(range, wordUnderPos, pos, removed))
    IN  IF removed > 0 THEN Shift(f, pos, removed, 0 - removed) ELSE f

----------------------------------------------------------------------------
(* SpellingHighlighter: the state after construction and the handlers.     *)

InFlight == BagCardinality(inflight)

\* The number of invokeCheckText calls among the checks of a bag.
Regions(B) == BagCardinality([c \in {x \in BagToSet(B) : IsRegion(x)}
                                 |-> CopiesIn(c, B)])

\* The constructor: members at their defaults, then checkCurrentText() on
\* the document of the field, with _lastPlainText still empty.
HighlighterInit(documents, dictionaries) ==
    /\ doc \in documents
    /\ dictionary \in dictionaries
    /\ tags = [i \in 1..Len(doc) |-> FALSE]
    /\ lastPlainText = <<>>
    /\ cachedRanges = <<>>
    /\ addedSymbols = 0
    /\ removedSymbols = 0
    /\ lastPosition = 0
    /\ enabled = TRUE
    /\ timerActive = FALSE
    /\ countOfCheckingTextAsync = (IF Len(doc) = 0 THEN 0 ELSE 1)
    /\ inflight = (IF Len(doc) = 0 THEN NoCheck
                   ELSE checkCurrentText(doc, <<>>))
    /\ edits = 0
    /\ last = [op |-> "init", arg |-> <<>>]
    /\ SyntaxInit
    /\ AsyncInit

\* A timer that would stay as it is when it is cancelled.
keep(active) == active

\* checkChangedText: if (_coldSpellcheckingTimer.isActive()) cancel().
cancel(active) == FALSE

\* The editor replaces removed characters at pos by ins and the document
\* emits contentsChange(pos, removed, Len(ins)).  With t the inserted text
\* carries an unspellcheckable tag; the model tags insertions of "b" only.
contentsChange(pos, removed, ins, t) ==
    LET added == Len(ins)
        d == SubSeq(doc, 1, pos) \o ins
                \o SubSeq(doc, pos + removed + 1, Len(doc))
        tg == SubSeq(tags, 1, pos) \o [i \in 1..added |-> t]
                \o SubSeq(tags, pos + removed + 1, Len(tags))
        ranges == ChangedRanges(cachedRanges, d, pos, removed, added)
        newLast == IF lastPosition = 0 \/ removed = 1 THEN pos
                   ELSE lastPosition
        addedSymbol == AddedSymbol(d, pos, added)
        forced == ~(addedSymbol = "" \/ IsSpace(addedSymbol)
                    \/ IsLetterOrNumber(addedSymbol))
        dispatched ==
            checkChangedText(d, tg, d,
                IF forced THEN newLast - 1 ELSE newLast,
                IF forced THEN addedSymbols + added + 1
                ELSE addedSymbols + added,
                removedSymbols + removed,
                EndOfWord(getWordUnderPosition(d, pos, 0)))
        \* one letter is typed inside or at an end of a cached range
        spanned ==
            /\ removed = 0
            /\ added = 1
            /\ IsLetterOrNumber(ins[1])
            /\ \E i \in 1..Len(cachedRanges) :
                  /\ cachedRanges[i][1] <= pos
                  /\ pos <= EndOfWord(cachedRanges[i])
    IN  /\ removed + added > 0
        /\ t => (added > 0 /\ \A i \in 1..added : ins[i] = "b")
        /\ Len(d) <= MaxLen
        /\ edits' = edits + 1
        /\ doc' = d
        /\ tags' = tg
        /\ last' = [op |-> "contentsChange",
                    arg |-> <<pos, removed, added, spanned>>]
        /\ UNCHANGED <<dictionary, langVars, wordVars, syntaxVars,
                       asyncVars>>
        /\ UNCHANGED enabled
        /\ IF Len(d) = 0
           THEN /\ cachedRanges' = <<>>
                /\ inflight' = MarkStale(inflight)
                /\ UNCHANGED <<lastPlainText, addedSymbols, removedSymbols,
                               lastPosition, timerActive,
                               countOfCheckingTextAsync>>
           ELSE /\ lastPlainText' = d
                /\ cachedRanges' = ranges
                /\ IF removed = 1 \/ IsLetterOrNumber(addedSymbol)
                   THEN /\ addedSymbols' = addedSymbols + added
                        /\ removedSymbols' = removedSymbols + removed
                        /\ lastPosition' = newLast
                        /\ timerActive' = TRUE
                        /\ inflight' = MarkStale(inflight)
                        /\ UNCHANGED countOfCheckingTextAsync
                   ELSE /\ InFlight + BagCardinality(dispatched)
                              <= MaxInFlight
                        /\ addedSymbols' = 0
                        /\ removedSymbols' = 0
                        /\ lastPosition' = 0
                        /\ timerActive' = cancel(timerActive)
                        /\ inflight' = MarkStale(inflight) (+) dispatched
                        /\ countOfCheckingTextAsync' =
                              countOfCheckingTextAsync + Regions(dispatched)

\* The debounce timer fires: _coldSpellcheckingTimer calls
\* checkChangedText().
TimerFire ==
    LET dispatched ==
            checkChangedText(doc, tags, lastPlainText, lastPosition,
                             addedSymbols, removedSymbols, 0)
        \* the position of the letter typed into a cached range by the step
        \* before, when it is the only edit not checked yet; -1 otherwise
        typed == IF /\ last.op = "contentsChange"
                    /\ last.arg[4]
                    /\ addedSymbols = 1
                    /\ removedSymbols = 0
                    /\ lastPosition = last.arg[1]
                 THEN last.arg[1] ELSE -1
    IN  /\ timerActive
        /\ InFlight + BagCardinality(dispatched) <= MaxInFlight
        /\ timerActive' = FALSE
        /\ addedSymbols' = 0
        /\ removedSymbols' = 0
        /\ lastPosition' = 0
        /\ inflight' = inflight (+) dispatched
        /\ countOfCheckingTextAsync' =
              countOfCheckingTextAsync + Regions(dispatched)
        /\ last' = [op |-> "timer", arg |-> <<typed>>]
        /\ UNCHANGED <<dictionary, langVars, wordVars, syntaxVars,
                       asyncVars>>
        /\ UNCHANGED <<doc, tags, lastPlainText, cachedRanges, enabled, edits>>

\* checkCurrentText() called from a main-thread handler.
CurrentText ==
    IF Len(doc) = 0
    THEN /\ cachedRanges' = <<>>
         /\ UNCHANGED <<inflight, countOfCheckingTextAsync>>
    ELSE /\ InFlight + 1 <= MaxInFlight
         /\ inflight' = inflight (+) checkCurrentText(doc, lastPlainText)
         /\ countOfCheckingTextAsync' = countOfCheckingTextAsync + 1
         /\ UNCHANGED cachedRanges

\* eventFilter: a navigation key or a mouse press while edits are pending.
KeyOrMousePress ==
    /\ enabled
    /\ addedSymbols + removedSymbols + lastPosition # 0
    /\ CurrentText
    /\ last' = [op |-> "key", arg |-> <<>>]
    /\ UNCHANGED <<dictionary, langVars, wordVars, syntaxVars,
                   asyncVars>>
    /\ UNCHANGED <<doc, tags, lastPlainText, addedSymbols, removedSymbols,
                   lastPosition, enabled, timerActive, edits>>

\* SpellingHighlighter::setEnabled
setEnabled(value) ==
    /\ enabled' = value
    /\ IF value THEN CurrentText
       ELSE /\ cachedRanges' = <<>>
            /\ UNCHANGED <<inflight, countOfCheckingTextAsync>>
    /\ last' = [op |-> "setEnabled", arg |-> <<value>>]
    /\ UNCHANGED <<dictionary, langVars, wordVars, syntaxVars,
                   asyncVars>>
    /\ UNCHANGED <<doc, tags, lastPlainText, addedSymbols, removedSymbols,
                   lastPosition, timerActive, edits>>

\* The position of the typed letter when c is the check that the timer
\* dispatched in the step before for a letter typed into a cached range:
\* every older check was dispatched before that edit.  -1 otherwise.
TypedCheck(c) ==
    IF last.op = "timer" /\ last.arg[1] >= 0 /\ ~c.stale
    THEN last.arg[1] ELSE -1

\* The crl::on_main continuation of invokeCheckText for the check c.
RegionReturn(c) ==
    LET rest == inflight (-) OneCheck(c)
        count == countOfCheckingTextAsync - 1
        ranges == CheckSpellingText(c.text, c.pos)
        filtered == filterSkippableWords(lastPlainText, tags, ranges)
        endOfText == c.pos + c.len
        word == getWordUnderPosition(doc, endOfText, 0)
        incomplete ==
            /\ Len(filtered) > 0
            /\ EndOfWord(filtered[Len(filtered)]) = endOfText
            /\ EndOfWord(word) # endOfText
        result == IF incomplete THEN SubSeq(filtered, 1, Len(filtered) - 1)
                  ELSE filtered
        dispatched == IF incomplete
                      THEN checkSingleWord(lastPlainText, tags, word)
                      ELSE NoCheck
        merged == compareDocumentText(lastPlainText, c.text, c.pos, c.len) = 0
        \* a full check dispatched after the last edit whose result is merged
        full == c.kind = "assign" /\ ~c.stale /\ merged
        \* how many such results have been merged in a row, counted up to 2
        run == IF ~full THEN 0
               ELSE IF last.op = "regionReturn" /\ last.arg[3] > 0 THEN 2
               ELSE 1
    IN  /\ BagIn(c, inflight)
        /\ IsRegion(c)
        /\ last' = [op |-> "regionReturn",
                    arg |-> <<c.stale, Mid(doc, c.pos, c.len) # c.text, run,
                              c.kind, TypedCheck(c)>>]
        /\ UNCHANGED <<dictionary, langVars, wordVars, syntaxVars,
                       asyncVars>>
        /\ IF ~merged
           THEN IF count = 0
                THEN IF Len(doc) = 0
                     THEN /\ cachedRanges' = <<>>
                          /\ inflight' = rest
                          /\ countOfCheckingTextAsync' = count
                     ELSE /\ inflight' = rest
                              (+) checkCurrentText(doc, lastPlainText)
                          /\ countOfCheckingTextAsync' = count + 1
                          /\ UNCHANGED cachedRanges
                ELSE /\ inflight' = rest
                     /\ countOfCheckingTextAsync' = count
                     /\ UNCHANGED cachedRanges
           ELSE /\ cachedRanges' =
                      (IF c.kind = "assign"
                       THEN AssignRanges(cachedRanges, result)
                       ELSE InsertRanges(cachedRanges, c.pos, result))
                /\ inflight' = rest (+) dispatched
                /\ countOfCheckingTextAsync' = count
        /\ Len(cachedRanges') <= MaxRanges
        /\ UNCHANGED <<doc, tags, lastPlainText, addedSymbols,
                       removedSymbols, lastPosition, enabled, timerActive,
                       edits>>

\* The crl::on_main continuation of checkSingleWord for the check c: it
\* runs when the dictionary has rejected the word and inserts its range.
WordReturn(c) ==
    /\ BagIn(c, inflight)
    /\ c.kind = "word"
    /\ inflight' = inflight (-) OneCheck(c)
    /\ cachedRanges' =
          InsertRanges(cachedRanges, c.pos, <<<<c.pos, c.len>>>>)
    /\ Len(cachedRanges') <= MaxRanges
    /\ last' = [op |-> "wordReturn", arg |-> <<c.stale, TypedCheck(c)>>]
    /\ UNCHANGED <<dictionary, langVars, wordVars, syntaxVars,
                   asyncVars>>
    /\ UNCHANGED <<doc, tags, lastPlainText, addedSymbols, removedSymbols,
                   lastPosition, enabled, timerActive, edits,
                   countOfCheckingTextAsync>>

\* The subscription to documentContentsChanges: an edit of the document
\* that replaces any part of it by one of inserts, tagged as one of
\* formats says, while fewer than budget edits have been made.
EditWith(inserts, formats, budget) ==
    /\ edits < budget
    /\ \E pos \in 0..Len(doc) : \E removed \in 0..(Len(doc) - pos) :
          \E ins \in inserts : \E t \in formats :
              contentsChange(pos, removed, ins, t)

\* Every replacement by a text of at most MaxAdd characters.
Edit == EditWith(Texts(MaxAdd), BOOLEAN, MaxEdits)

Next ==
    \/ Edit
    \/ TimerFire
    \/ KeyOrMousePress
    \/ \E value \in BOOLEAN : setEnabled(value)
    \/ \E c \in BagToSet(inflight) : RegionReturn(c)
    \/ \E c \in BagToSet(inflight) : WordReturn(c)

\* A longer session on a field that holds one misspelled word: the user
\* types, deletes and overwrites with "b" and " " only, without formatting.
SessionTexts == {<<>>, <<"b">>, <<" ">>}

SessionEdit == EditWith(SessionTexts, {FALSE}, MaxSessionEdits)

NextSession ==
    \/ SessionEdit
    \/ TimerFire
    \/ KeyOrMousePress
    \/ \E value \in BOOLEAN : setEnabled(value)
    \/ \E c \in BagToSet(inflight) : RegionReturn(c)
    \/ \E c \in BagToSet(inflight) : WordReturn(c)

----------------------------------------------------------------------------
(* HunspellService::updateLanguages.                                       *)
(*                                                                         *)
(* A task is the crl::async lambda of one call.  Its steps are the places  *)
(* where it reads or writes shared state: the epoch reads, the read of     *)
(* *engines under the shared lock, the construction of each engine, the    *)
(* write of *engines under the unique lock.  A lock-guarded block is one   *)
(* step.  The crl::on_main lambdas run on the main thread in the order in  *)
(* which they were posted.                                                 *)

MaxUpdates == 3

Langs == {"en", "fr", "xx"}
\* The languages whose dictionary files exist: HunspellEngine::isValid().
Loadable == {"en", "fr"}

LangLists == {<<>>, <<"en">>, <<"fr">>, <<"xx">>, <<"en", "fr">>,
              <<"en", "xx">>, <<"fr", "xx">>, <<"en", "fr", "xx">>}

Range(f) == {f[i] : i \in DOMAIN f}

\* A null std::unique_ptr<HunspellEngine>.
Null == "null"

\* The scripts of the words and of the dictionaries, in the order of
\* QChar::Script.
Scripts == <<"Latin", "Cyrillic">>

\* HunspellService::HunspellService when there is no custom dictionary
\* file: readFile returns at once and the word lists are empty.
WordsInit ==
    /\ ignoredWords = [s \in Range(Scripts) |-> <<>>]
    /\ addedWords = [s \in Range(Scripts) |-> <<>>]
    /\ customFile = <<>>
    /\ engineMutex = 0

LangInit ==
    /\ epoch = 0
    /\ engines = <<>>
    /\ activeLanguages = <<>>
    /\ tasks = <<>>
    /\ mainQueue = <<>>
    /\ WordsInit

\* The main-thread part of updateLanguages(langs), up to crl::async.
\* Expects(_suggestionsEpoch.load() == 0) ends the program when it fails.
updateLanguages(langs) ==
    /\ Len(tasks) < MaxUpdates
    /\ IF suggestionsEpoch # 0
       THEN /\ last' = [op |-> "terminate", arg |-> <<"updateLanguages">>]
            /\ UNCHANGED <<epoch, activeLanguages, tasks>>
       ELSE /\ epoch' = epoch + 1
            /\ activeLanguages' = <<>>
            /\ tasks' = Append(tasks,
                  [langs |-> langs, savedEpoch |-> epoch + 1,
                   pc |-> "start", missedLangs |-> <<>>,
                   localEngines |-> <<>>])
            /\ last' = [op |-> "updateLanguages",
                        arg |-> <<Len(tasks) + 1>>]
    /\ UNCHANGED <<asyncVars, syntaxVars, hlState, wordVars>>
    /\ UNCHANGED <<engines, mainQueue>>

\* An installation that would keep every element, null or not.
keepEngines(all, langs) == all

\* The engines of concat(*engines, localEngines) that engineLangFilter
\* keeps: the non-null ones whose language is in langs.
FilterEngines(all, langs) ==
    SelectSeq(all, LAMBDA e : e # Null /\ e \in Range(langs))

\* The first epoch check of the task (line 221).
TaskStart(id) ==
    /\ tasks[id].pc = "start"
    /\ tasks' = [tasks EXCEPT ![id].pc =
                    IF tasks[id].savedEpoch # epoch THEN "done"
                    ELSE "missed"]
    /\ last' = [op |-> "taskStart", arg |-> <<id>>]
    /\ UNCHANGED <<asyncVars, syntaxVars, hlState, wordVars>>
    /\ UNCHANGED <<epoch, engines, activeLanguages, mainQueue>>

\* missedLangs, computed under the shared lock.
TaskMissedLangs(id) ==
    /\ tasks[id].pc = "missed"
    /\ engineMutex = 0
    /\ tasks' = [tasks EXCEPT
          ![id].missedLangs =
              SelectSeq(tasks[id].langs, LAMBDA l : l \notin Range(engines)),
          ![id].pc = "build"]
    /\ last' = [op |-> "taskMissedLangs", arg |-> <<id>>]
    /\ UNCHANGED <<asyncVars, syntaxVars, hlState, wordVars>>
    /\ UNCHANGED <<epoch, engines, activeLanguages, mainQueue>>

\* One element of the transform that fills localEngines; after the last
\* one the task goes on to the epoch check of line 253.
TaskBuild(id) ==
    LET t == tasks[id]
        lang == t.missedLangs[Len(t.localEngines) + 1]
        engine == IF t.savedEpoch # epoch THEN Null
                  ELSE IF lang \notin Loadable THEN Null
                  ELSE lang
    IN  /\ t.pc = "build"
        /\ IF Len(t.localEngines) < Len(t.missedLangs)
           THEN tasks' = [tasks EXCEPT
                    ![id].localEngines = Append(t.localEngines, engine)]
           ELSE tasks' = [tasks EXCEPT ![id].pc =
                    IF t.savedEpoch # epoch THEN "done" ELSE "install"]
        /\ last' = [op |-> "taskBuild", arg |-> <<id>>]
        /\ UNCHANGED <<asyncVars, syntaxVars, hlState, wordVars>>
        /\ UNCHANGED <<epoch, engines, activeLanguages, mainQueue>>

\* The assignment to *engines under the unique lock, then crl::on_main.
TaskInstall(id) ==
    LET t == tasks[id]
    IN  /\ t.pc = "install"
        /\ engineMutex = 0
        /\ engines' = FilterEngines(engines \o t.localEngines, t.langs)
        /\ mainQueue' = Append(mainQueue, id)
        /\ tasks' = [tasks EXCEPT ![id].pc = "posted"]
        /\ last' = [op |-> "taskInstall", arg |-> <<id>>]
        /\ UNCHANGED <<asyncVars, syntaxVars, hlState, wordVars>>
        /\ UNCHANGED <<epoch, activeLanguages>>

\* std::unique_lock lock(*engineMutex) of the task, as a step of its own.
TaskLock(id) ==
    /\ tasks[id].pc = "install"
    /\ engineMutex = 0
    /\ engineMutex' = id
    /\ tasks' = [tasks EXCEPT ![id].pc = "locked"]
    /\ last' = [op |-> "taskLock", arg |-> <<id>>]
    /\ UNCHANGED <<asyncVars, syntaxVars, hlState, ignoredWords, addedWords,
                   customFile>>
    /\ UNCHANGED <<epoch, engines, activeLanguages, mainQueue>>

\* The assignment to *engines by the task that holds the lock, the end of
\* the locked block and crl::on_main.
TaskWrite(id) ==
    LET t == tasks[id]
    IN  /\ t.pc = "locked"
        /\ engines' = FilterEngines(engines \o t.localEngines, t.langs)
        /\ engineMutex' = 0
        /\ mainQueue' = Append(mainQueue, id)
        /\ tasks' = [tasks EXCEPT ![id].pc = "posted"]
        /\ last' = [op |-> "taskWrite", arg |-> <<id>>]
        /\ UNCHANGED <<asyncVars, syntaxVars, hlState, ignoredWords, addedWords,
                       customFile>>
        /\ UNCHANGED <<epoch, activeLanguages>>

\* What the completion can read from *engines, which it reads without a
\* lock: the engines, or, while a task is assigning to *engines, what the
\* vector holds before, during or after the assignment.
UnlockedRead ==
    IF engineMutex = 0 THEN {engines}
    ELSE LET t == tasks[engineMutex]
         IN  {engines, <<>>,
              FilterEngines(engines \o t.localEngines, t.langs)}

\* A test that would take every completion for the current one.
alwaysCurrent(savedEpoch, current) == TRUE

\* The test of the crl::on_main lambda: savedEpoch == epoch.get()->load().
epochIsCurrent(savedEpoch, current) == savedEpoch = current

\* The crl::on_main lambda of the task at the head of the main queue.
MainComplete ==
    /\ Len(mainQueue) > 0
    /\ LET id == Head(mainQueue)
       IN  /\ IF ~epochIsCurrent(tasks[id].savedEpoch, epoch)
              THEN UNCHANGED <<epoch, activeLanguages>>
              ELSE /\ epoch' = 0
                   /\ activeLanguages' \in UnlockedRead
           /\ tasks' = [tasks EXCEPT ![id].pc = "done"]
           /\ last' = [op |-> "mainComplete", arg |-> <<id>>]
           /\ UNCHANGED <<asyncVars, syntaxVars, hlState, wordVars>>
    /\ mainQueue' = Tail(mainQueue)
    /\ UNCHANGED engines

----------------------------------------------------------------------------
(* HunspellService: the word lists and checkSpelling.                      *)

MaxIgnored == 2

\* The cap on the words of the custom dictionary: 1300 in the source,
\* scaled down here.
kMaxSyncableDictionaryWords == 2

\* "cat" and "ok" are written in Latin letters and "kot" stands for a word
\* written in Cyrillic letters.
Words == {"cat", "ok", "kot"}

\* ::Spellchecker::WordScript
WordScript(word) == IF word = "kot" THEN "Cyrillic" ELSE "Latin"

\* ::Spellchecker::LocaleToScriptCode
LocaleToScriptCode(lang) == IF lang = "ru" THEN "Cyrillic" ELSE "Latin"

\* HunspellEngine::spell: the English dictionary holds "cat", the Russian
\* one holds "kot" and, in Latin letters, "ok".
spell(lang, word) ==
    \/ lang = "en" /\ word = "cat"
    \/ lang = "ru" /\ word \in {"kot", "ok"}

\* The engines a service can hold once its languages are installed.
InstalledEngines == {<<>>, <<"en">>, <<"ru">>, <<"en", "ru">>, <<"ru", "en">>}

\* A loop that would ask every engine, whatever its script.
anyScriptSpells(all, i, wordToCheck) ==
    \E j \in i..Len(all) : spell(all[j], wordToCheck)

\* The loop of checkSpelling over *_engines from the engine at index i.
RECURSIVE anyEngineSpells(_, _, _)
anyEngineSpells(all, i, wordToCheck) ==
    IF i > Len(all) THEN FALSE
    ELSE IF WordScript(wordToCheck) # LocaleToScriptCode(all[i])
    THEN anyEngineSpells(all, i + 1, wordToCheck)
    ELSE IF spell(all[i], wordToCheck) THEN TRUE
    ELSE anyEngineSpells(all, i + 1, wordToCheck)

\* HunspellService::checkSpelling: its result.
checkSpellingResult(wordToCheck) ==
    LET wordScript == WordScript(wordToCheck)
    IN  IF wordToCheck \in Range(ignoredWords[wordScript]) THEN TRUE
        ELSE IF wordToCheck \in Range(addedWords[wordScript]) THEN TRUE
        ELSE anyEngineSpells(engines, 1, wordToCheck)

checkSpelling(wordToCheck) ==
    /\ engineMutex = 0
    /\ last' = [op |-> "checkSpelling",
                arg |-> <<wordToCheck, checkSpellingResult(wordToCheck)>>]
    /\ UNCHANGED <<asyncVars, syntaxVars, hlState, langVars, wordVars>>

\* HunspellService::ignoreWord
ignoreWord(word) ==
    /\ Len(ignoredWords["Latin"]) + Len(ignoredWords["Cyrillic"]) < MaxIgnored
    /\ ignoredWords' = [ignoredWords EXCEPT
                           ![WordScript(word)] = Append(@, word)]
    /\ last' = [op |-> "ignoreWord", arg |-> <<word>>]
    /\ UNCHANGED <<asyncVars, syntaxVars, hlState, langVars, addedWords,
                   customFile, engineMutex>>

\* What writeToFile writes: the added words of every script in turn.
joinedWords(added) == added[Scripts[1]] \o added[Scripts[2]]

\* HunspellService::writeToFile; opened is the result of QFile::open.
writeToFile(added, opened) ==
    IF opened THEN joinedWords(added) ELSE customFile

\* The number of added words that addWord accumulates.
addedCount == Len(addedWords[Scripts[1]]) + Len(addedWords[Scripts[2]])

\* HunspellService::addWord
addWord(word, opened) ==
    /\ last' = [op |-> "addWord", arg |-> <<word, addedCount>>]
    /\ IF addedCount > kMaxSyncableDictionaryWords
       THEN UNCHANGED <<addedWords, customFile>>
       ELSE LET added == [addedWords EXCEPT
                             ![WordScript(word)] = Append(@, word)]
            IN  /\ addedWords' = added
                /\ customFile' = writeToFile(added, opened)
    /\ UNCHANGED <<asyncVars, syntaxVars, hlState, langVars, ignoredWords,
                   engineMutex>>

\* HunspellService::removeWord
removeWord(word, opened) ==
    LET added == [addedWords EXCEPT
                     ![WordScript(word)] =
                         SelectSeq(@, LAMBDA w : w # word)]
    IN  /\ addedWords' = added
        /\ customFile' = writeToFile(added, opened)
        /\ last' = [op |-> "removeWord", arg |-> <<word>>]
        /\ UNCHANGED <<asyncVars, syntaxVars, hlState, langVars, ignoredWords,
                       engineMutex>>

----------------------------------------------------------------------------
(* The system spellcheckers: one word check.                               *)

MaxBackends == 3

\* What one ISpellChecker does with the word:
\*   "checkFailed" : Check fails or gives no enumerator
\*   "noError"     : the enumerator has no spelling error
\*   "nextFailed"  : Next or a getter of the spelling error fails
\*   "otherAction" : the error asks for no correction or for a deletion
\*   "misspelled"  : the error asks for suggestions or for a replacement
WindowsOutcomes ==
    {"checkFailed", "noError", "nextFailed", "otherAction", "misspelled"}

\* The spellcheckers of _spellcheckerMap, by what each does with the word.
WindowsBackends ==
    UNION {[1..n -> WindowsOutcomes] : n \in 0..MaxBackends}

\* The loop of WindowsSpellChecker::checkSpelling from the checker at i.
RECURSIVE windowsCheckFrom(_, _)
windowsCheckFrom(outcomes, i) ==
    IF i > Len(outcomes) THEN FALSE
    ELSE IF outcomes[i] = "checkFailed"
    THEN windowsCheckFrom(outcomes, i + 1)
    ELSE IF outcomes[i] = "misspelled"
    THEN windowsCheckFrom(outcomes, i + 1)
    ELSE TRUE

\* WindowsSpellChecker::checkSpelling
windowsCheckSpelling(outcomes) ==
    /\ last' = [op |-> "windowsCheckSpelling",
                arg |-> <<outcomes, windowsCheckFrom(outcomes, 1)>>]
    /\ UNCHANGED <<asyncVars, syntaxVars, hlState, langVars, wordVars>>

\* What Enchant does with the word:
\*   "noDict"  : getValidatorByWord returns no dictionary
\*   "throws"  : Dict::check throws enchant::Exception
\*   "accepts", "rejects" : Dict::check returns
EnchantOutcomes == {"noDict", "throws", "accepts", "rejects"}

\* EnchantSpellChecker::checkSpelling
enchantCheckSpelling(outcome) ==
    /\ last' = [op |-> "enchantCheckSpelling",
                arg |-> <<outcome, outcome # "rejects">>]
    /\ UNCHANGED <<asyncVars, syntaxVars, hlState, langVars, wordVars>>

----------------------------------------------------------------------------
(* Specifications.                                                         *)

\* The highlighter on a field that holds any text of at most MaxInitLen
\* characters when it is constructed.
Init == HighlighterInit(Texts(MaxInitLen), {EvenWords}) /\ LangInit

Spec == Init /\ [][Next]_vars

\* The longer session: the field holds "bbb" when the highlighter is
\* constructed.
InitSession == HighlighterInit({<<"b", "b", "b">>}, {EvenWords}) /\ LangInit

SpecSession == InitSession /\ [][NextSession]_vars

\* The handlers on a field that holds the word "b", with the dictionary
\* that rejects every word shorter than "bbb".
InitTyping == HighlighterInit({<<"b">>}, {LongWords}) /\ LangInit

SpecTyping == InitTyping /\ [][Next]_vars

\* The language service alone; the highlighter stays as constructed on an
\* empty field.
InitLang == HighlighterInit({<<>>}, {EvenWords}) /\ LangInit

NextLang ==
    \/ \E langs \in LangLists : updateLanguages(langs)
    \/ \E id \in DOMAIN tasks : TaskStart(id)
    \/ \E id \in DOMAIN tasks : TaskMissedLangs(id)
    \/ \E id \in DOMAIN tasks : TaskBuild(id)
    \/ \E id \in DOMAIN tasks : TaskInstall(id)
    \/ MainComplete

SpecLang == InitLang /\ [][NextLang]_vars

\* The language service with the exclusive lock of a rebuild taken and
\* released in two steps.
LockLangLists == {<<"en">>, <<"fr", "xx">>}

NextLock ==
    \/ \E langs \in LockLangLists : updateLanguages(langs)
    \/ \E id \in DOMAIN tasks : TaskStart(id)
    \/ \E id \in DOMAIN tasks : TaskMissedLangs(id)
    \/ \E id \in DOMAIN tasks : TaskBuild(id)
    \/ \E id \in DOMAIN tasks : TaskLock(id)
    \/ \E id \in DOMAIN tasks : TaskWrite(id)
    \/ MainComplete
    \/ \E word \in Words : checkSpelling(word)

SpecLock == InitLang /\ [][NextLock]_vars

\* One word check by a system spellchecker, for every behaviour of its
\* backends.
NextPlatform ==
    \/ \E outcomes \in WindowsBackends : windowsCheckSpelling(outcomes)
    \/ \E outcome \in EnchantOutcomes : enchantCheckSpelling(outcome)

SpecPlatform == InitLang /\ [][NextPlatform]_vars

\* The word lists of a service whose languages are installed.
InitWords ==
    /\ HighlighterInit({<<>>}, {EvenWords})
    /\ epoch = 0
    /\ engines \in InstalledEngines
    /\ activeLanguages = engines
    /\ tasks = <<>>
    /\ mainQueue = <<>>
    /\ WordsInit

NextWords ==
    \/ \E word \in Words : checkSpelling(word)
    \/ \E word \in Words : ignoreWord(word)
    \/ \E word \in Words : \E opened \in BOOLEAN : addWord(word, opened)
    \/ \E word \in Words : \E opened \in BOOLEAN : removeWord(word, opened)

SpecWords == InitWords /\ [][NextWords]_vars

----------------------------------------------------------------------------
(* Properties of the language service (SpecLang).                          *)

\* Every rebuild and every main-thread completion has run.
Quiescent ==
    /\ Len(tasks) >= 1
    /\ \A id \in DOMAIN tasks : tasks[id].pc = "done"
    /\ mainQueue = <<>>

LastLangs == Range(tasks[Len(tasks)].langs) \cap Loadable

\* C6: once every rebuild and its completion has run, the installed
\* engines and activeLanguages are exactly the loadable languages of the
\* last updateLanguages call.
C6_LastCallInstalled ==
    Quiescent =>
        /\ Range(engines) = LastLangs
        /\ Len(engines) = Cardinality(LastLangs)
        /\ Range(activeLanguages) = LastLangs
        /\ Len(activeLanguages) = Cardinality(LastLangs)

\* C7: the rebuild of a call that a later updateLanguages call has
\* superseded never modifies the installed engines.
C7_SupersededNeverInstalls ==
    [][(last'.op = "taskInstall" /\ last'.arg[1] < Len(tasks))
          => engines' = engines]_vars

\* C8: the dictionary epoch never decreases.
C8_EpochNeverDecreases == [][epoch' >= epoch]_vars

----------------------------------------------------------------------------
(* Properties of the highlighter (Spec).                                   *)

\* C1: the cached ranges are strictly increasing by offset and pairwise
\* non-overlapping.
C1_SortedNonOverlapping ==
    \A i \in 1..(Len(cachedRanges) - 1) :
        EndOfWord(cachedRanges[i]) <= cachedRanges[i + 1][1]

\* C2: the result of a check dispatched before an edit and returning after
\* it leaves the cached ranges as they are.
C2_StaleResultDiscarded ==
    [][(last'.op \in {"regionReturn", "wordReturn"} /\ last'.arg[1])
          => cachedRanges' = cachedRanges]_vars

\* The subsequence of seq at the indices of K, from index i on.
RECURSIVE Pick(_, _, _)
Pick(seq, K, i) ==
    IF i > Len(seq) THEN <<>>
    ELSE (IF i \in K THEN <<seq[i]>> ELSE <<>>) \o Pick(seq, K, i + 1)

\* C3: one contentsChange(p, removed, added) on a non-empty buffer keeps a
\* subsequence of the cached ranges; a kept range at or after p + removed
\* moves by exactly added - removed with its length unchanged, a kept range
\* before that is unchanged, and no kept range overlaps the deleted region
\* [p, p + removed).
C3_ShiftAndDrop ==
    [][(last'.op = "contentsChange" /\ Len(doc') > 0) =>
          LET p == last'.arg[1]
              removed == last'.arg[2]
              added == last'.arg[3]
              moved == [i \in DOMAIN cachedRanges |->
                  IF cachedRanges[i][1] >= p + removed
                  THEN <<cachedRanges[i][1] + added - removed,
                         cachedRanges[i][2]>>
                  ELSE cachedRanges[i]]
          IN  \E K \in SUBSET DOMAIN cachedRanges :
                  /\ cachedRanges' = Pick(moved, K, 1)
                  /\ \A i \in K :
                        ~(removed > 0 /\ IntersectsWordRanges(
                                            cachedRanges[i], p, removed))]_vars

\* The deletion contentsChange(p, removed, 0) took only separators from
\* between two words of doc, so that they are one word of doc'.
MergesTwoWords(p, removed) ==
    /\ removed >= 1
    /\ p >= 1
    /\ p + removed < Len(doc)
    /\ IsLetterOrNumber(doc[p])
    /\ IsLetterOrNumber(doc[p + removed + 1])
    /\ \A i \in (p + 1)..(p + removed) : ~IsLetterOrNumber(doc[i])

\* C4: when a deletion merges two words, a range that was cached for the
\* word on the left or for the word on the right is not in the cached
\* ranges after contentsChange.
C4_MergedWordsDropped ==
    [][(/\ last'.op = "contentsChange"
        /\ last'.arg[3] = 0
        /\ MergesTwoWords(last'.arg[1], last'.arg[2])) =>
          LET p == last'.arg[1]
              removed == last'.arg[2]
              first == SkipWordLeft(doc, p)
              left == <<first, p - first>>
              right == <<p + removed, SkipWordRight(doc, p + removed)
                                         - (p + removed)>>
              cached == Range(cachedRanges)
              kept == Range(cachedRanges')
          IN  /\ left \in cached => left \notin kept
              /\ right \in cached => <<p, right[2]>> \notin kept]_vars

\* C5: the return of a region check or of a single-word check adds no
\* range that carries an unspellcheckable tag at that moment.
C5_NoTaggedRangeAdded ==
    [][last'.op \in {"regionReturn", "wordReturn"} =>
          \A r \in Range(cachedRanges') \ Range(cachedRanges) :
              ~hasUnspellcheckableTag(tags, r[1], r[2])]_vars

\* C9: the return of a region check whose slice of the buffer differs from
\* the dispatched text leaves the cached ranges as they are, and dispatches
\* a full recheck exactly when no other region check is in flight.
C9_ChangedSliceDiscarded ==
    [][(last'.op = "regionReturn" /\ last'.arg[2]) =>
          /\ cachedRanges' = cachedRanges
          /\ (countOfCheckingTextAsync' = countOfCheckingTextAsync)
                <=> (countOfCheckingTextAsync = 1)]_vars

\* C10: while the buffer is empty or checking is disabled there is no
\* cached range.
C10_EmptyWhenNothingToCheck ==
    (Len(doc) = 0 \/ ~enabled) => cachedRanges = <<>>

\* A full check dispatched after the last edit was merged, and so was the
\* one before it, with no step in between.
C11_W_TwoFullChecks ==
    /\ last.op = "regionReturn"
    /\ last.arg[3] = 2
    /\ cachedRanges # <<>>

\* C11: the second of two full rechecks that complete one after the other
\* on an unedited buffer leaves the cached ranges that the first one left.
C11_RecheckSameRanges ==
    [][(last'.op = "regionReturn" /\ last'.arg[3] = 2)
          => cachedRanges' = cachedRanges]_vars

\* The spans of the words of the buffer d that are not skippable and that
\* the dictionary rejects.
Misspelled(d, tg) == filterSkippableWords(d, tg, CheckSpellingText(d, 0))

\* C12: when a full check that met no edit since its dispatch completes,
\* the cached ranges are exactly the rejected, non-skippable words of the
\* buffer; the check dispatched by the constructor is one of them.
C12_FullCheckExact ==
    [][(/\ last'.op = "regionReturn"
        /\ last'.arg[4] = "assign"
        /\ ~last'.arg[1])
          => cachedRanges' = Misspelled(doc', tags')]_vars

\* The word of d that holds the letter at position p: the longest run of
\* letters around it.
LetterRun(d, p) ==
    LET first == CHOOSE j \in 1..(p + 1) :
                    /\ \A k \in j..(p + 1) : IsLetterOrNumber(d[k])
                    /\ (j = 1 \/ ~IsLetterOrNumber(d[j - 1]))
        end == CHOOSE j \in (p + 1)..Len(d) :
                    /\ \A k \in (p + 1)..j : IsLetterOrNumber(d[k])
                    /\ (j = Len(d) \/ ~IsLetterOrNumber(d[j + 1]))
    IN  <<first - 1, end - first + 1>>

HasRange(ranges, w) == \E i \in 1..Len(ranges) : ranges[i] = w

\* contentsChange has just handled a letter typed into a cached range.
TypedStep == last'.op = "contentsChange" /\ last'.arg[4]

\* The timer fires right after such an edit, the only one not checked yet.
TypedTimerStep == last'.op = "timer" /\ last'.arg[1] >= 0

\* The check that this firing dispatched has returned right after it.
TypedReturned ==
    \/ last.op = "wordReturn" /\ last.arg[2] >= 0
    \/ last.op = "regionReturn" /\ last.arg[5] >= 0

TypedReturnStep == TypedReturned'

TypedLetter(rejected(_)) ==
    /\ TypedStep =>
          LET w == LetterRun(doc', last'.arg[1])
          IN  /\ \A i \in 1..Len(cachedRanges') :
                    ~IntersectsWordRanges2(cachedRanges'[i], w)
              /\ timerActive'
              /\ BagCardinality(inflight') = BagCardinality(inflight)
    /\ TypedTimerStep =>
          LET w == LetterRun(doc, last'.arg[1])
          IN  /\ ~HasRange(cachedRanges', w)
              /\ rejected(w) =>
                    BagCardinality(inflight') = BagCardinality(inflight) + 1
    /\ TypedReturnStep =>
          LET w == LetterRun(doc, last.arg[1])
          IN  HasRange(cachedRanges', w) <=> rejected(w)

Rejects(w) == ~CheckSpelling(Mid(doc, w[1], w[2]))

RejectsChecked(w) ==
    Rejects(w) /\ ~isSkippableWord(doc, tags, w[1], w[2])

Settled == ~timerActive /\ BagCardinality(inflight) = 0

\* C14: once the timer has fired and every check in flight has completed,
\* the cached ranges of an enabled highlighter are exactly the rejected,
\* non-skippable words of the buffer.
C14_SettledIsExact ==
    (Settled /\ enabled /\ edits > 0) =>
        Range(cachedRanges) = Range(Misspelled(doc, tags))

\* contentsChange has just handled an edit that left the document
\* non-empty; debounced when it removed one character or added a letter.
EditStep == last'.op = "contentsChange" /\ Len(doc') > 0

DebouncedStep ==
    /\ EditStep
    /\ \/ last'.arg[2] = 1
       \/ IsLetterOrNumber(AddedSymbol(doc', last'.arg[1], last'.arg[3]))

\* Two letters typed one after the other wait for one pending firing.
C15_W_BurstPending ==
    /\ timerActive
    /\ last.op = "contentsChange"
    /\ addedSymbols = 2
    /\ removedSymbols = 0
    /\ Len(doc) = 2

\* C15: a debounced edit leaves the timer pending whether or not it was;
\* the timer fires only when pending and is not pending afterwards, and
\* the firing runs one changed-text check that takes all the accumulated
\* edits; an edit that runs the changed-text check itself leaves no
\* pending firing.
C15_TimerNeverStacks ==
    [][/\ DebouncedStep => timerActive'
       /\ (EditStep /\ ~DebouncedStep) =>
             (~timerActive' /\ addedSymbols' + removedSymbols' = 0)
       /\ last'.op = "timer" =>
             /\ timerActive
             /\ ~timerActive'
             /\ addedSymbols' + removedSymbols' + lastPosition' = 0
             /\ BagCardinality(inflight') <= BagCardinality(inflight) + 1
      ]_vars

----------------------------------------------------------------------------
(* Properties of the word lists (SpecWords).                               *)

\* checkSpelling has refused "ok" although the Russian dictionary, which
\* is installed, holds it.
C16_W_OtherScriptNotConsulted ==
    /\ last.op = "checkSpelling"
    /\ last.arg = <<"ok", FALSE>>
    /\ "ru" \in Range(engines)

\* C16: checkSpelling answers TRUE exactly when the word is in the session
\* ignored list, in the added list of its script, or accepted by an
\* installed engine of its script.
C16_CheckSpellingExact ==
    [][last'.op = "checkSpelling" =>
          LET word == last'.arg[1]
          IN  last'.arg[2] <=>
                \/ \E s \in Range(Scripts) : word \in Range(ignoredWords[s])
                \/ word \in Range(addedWords[WordScript(word)])
                \/ \E i \in 1..Len(engines) :
                      /\ LocaleToScriptCode(engines[i]) = WordScript(word)
                      /\ spell(engines[i], word)]_vars

\* C17: the added words are never more than kMaxSyncableDictionaryWords.
C17_AddedWordsCapped == addedCount <= kMaxSyncableDictionaryWords

----------------------------------------------------------------------------
(* Engines that cannot be constructed (SpecLang).                          *)

\* A rebuild that asked for "xx", which cannot be loaded, and for "en" has
\* run to its end: "en" is installed and active, "xx" is not.
C18_W_FailedLanguageLeftOut ==
    \E id \in DOMAIN tasks :
        /\ tasks[id].pc = "done"
        /\ Null \in Range(tasks[id].localEngines)
        /\ {"en", "xx"} \subseteq Range(tasks[id].langs)
        /\ "en" \in Range(engines)
        /\ activeLanguages = engines

\* C18: the collection of engines never holds a null engine nor a language
\* that cannot be loaded, and neither does activeLanguages; a rebuild with
\* a failed engine still installs every engine it has constructed, and its
\* completion publishes the installed languages.
C18_FailedEngineLeftOut ==
    [][/\ Null \notin Range(engines')
       /\ Range(engines') \subseteq Loadable
       /\ Range(activeLanguages') \subseteq Loadable
       /\ last'.op = "taskInstall" =>
             LET t == tasks[last'.arg[1]]
             IN  \A i \in DOMAIN t.localEngines :
                    t.localEngines[i] # Null =>
                        t.localEngines[i] \in Range(engines')
       /\ (last'.op = "mainComplete" /\ epoch' = 0 /\ epoch # 0) =>
             activeLanguages' = engines'
      ]_vars

----------------------------------------------------------------------------
(* The lock of the engines (SpecLock).                                     *)

\* C19: no step reads or assigns *engines while a task holds the exclusive
\* lock, except that task: the completion of a rebuild, which reads
\* *engines to derive activeLanguages, runs only when the lock is free.
C19_EnginesReadUnderLock ==
    [][(last'.op = "mainComplete" /\ epoch # 0 /\ epoch' = 0)
          => engineMutex = 0]_vars

----------------------------------------------------------------------------
(* Failing backends (SpecPlatform).                                        *)

WindowsFailures == {"checkFailed", "nextFailed"}

\* C20: a word check reports the word as correctly spelled when Enchant
\* has no dictionary for it or throws, and when every Windows spellchecker
\* fails or there is none.
C20_FailingBackendAccepts ==
    [][/\ (last'.op = "enchantCheckSpelling"
              /\ last'.arg[1] \in {"noDict", "throws"}) => last'.arg[2]
       /\ (last'.op = "windowsCheckSpelling"
              /\ Range(last'.arg[1]) \subseteq WindowsFailures)
             => last'.arg[2]
      ]_vars

----------------------------------------------------------------------------
(* The positions handed to the word-boundary oracle.                       *)

\* The position contentsChange leaves in _lastPosition when it runs the
\* changed-text check within the call: the first position of the pending
\* edits, moved one back when a symbol that is neither a letter, a digit
\* nor a space was inserted.
changedTextPosition(d, pos, removed, added, lastPos) ==
    LET newLast == IF lastPos = 0 \/ removed = 1 THEN pos ELSE lastPos
        addedSymbol == AddedSymbol(d, pos, added)
    IN  IF ~(addedSymbol = "" \/ IsSpace(addedSymbol)
             \/ IsLetterOrNumber(addedSymbol))
        THEN newLast - 1 ELSE newLast

\* The number of added symbols that check then reads.
changedTextAdded(d, pos, added, addedBefore) ==
    LET addedSymbol == AddedSymbol(d, pos, added)
    IN  IF ~(addedSymbol = "" \/ IsSpace(addedSymbol)
             \/ IsLetterOrNumber(addedSymbol))
        THEN addedBefore + added + 1 ELSE addedBefore + added

\* The positions checkChangedText passes to getWordUnderPosition.
checkChangedPositions(d, pos, added, cursor) ==
    {pos} \cup (IF getWordUnderPosition(d, pos, cursor)[2] # 0 /\ added > 0
                THEN {pos + added} ELSE {})

\* C21: every position the highlighter passes to getWordUnderPosition, in
\* contentsChange and in the changed-text check run by the call or by the
\* timer, lies between 0 and the length of the buffer.
C21_PositionsInRange ==
    [][/\ last'.op = "timer" =>
            \A p \in checkChangedPositions(doc, lastPosition,
                                           addedSymbols, 0) :
                p \in 0..Len(doc)
       /\ (/\ last'.op = "contentsChange"
           /\ Len(doc') > 0) =>
            /\ last'.arg[1] \in 0..Len(doc')
            /\ ~(last'.arg[2] = 1
                 \/ IsLetterOrNumber(AddedSymbol(doc', last'.arg[1],
                                                 last'.arg[3]))) =>
                  \A p \in checkChangedPositions(doc',
                        changedTextPosition(doc', last'.arg[1],
                            last'.arg[2], last'.arg[3], lastPosition),
                        changedTextAdded(doc', last'.arg[1], last'.arg[3],
                                         addedSymbols),
                        EndOfWord(getWordUnderPosition(doc',
                                                       last'.arg[1], 0))) :
                      p \in 0..Len(doc')]_vars

----------------------------------------------------------------------------
(* The suggestion list (SpecSuggest).                                      *)

\* kMaxSuggestions, scaled down from 5.
kMaxSuggestions == 2

\* The guesses a dictionary can produce are numbered from 1 to MaxGuess.
MaxGuess == 3

\* What Hunspell::suggest can return for a word: any list of guesses that
\* holds no guess twice.
GuessLists ==
    {g \in UNION {[1..n -> 1..MaxGuess] : n \in 0..MaxGuess} :
        \A i, j \in DOMAIN g : i # j => g[i] # g[j]}

\* ranges::views::take
Take(list, n) == SubSeq(list, 1, Min(n, Len(list)))

\* A loop that would push every guess.
pushAll(guesses, optionalSuggestions) == optionalSuggestions \o guesses

\* The loop of HunspellEngine::suggest from the guess at index i.
RECURSIVE suggestFrom(_, _, _)
suggestFrom(guesses, i, optionalSuggestions) ==
    IF i > Len(guesses) THEN optionalSuggestions
    ELSE IF Len(optionalSuggestions) = kMaxSuggestions
    THEN optionalSuggestions
    ELSE IF guesses[i] \in Range(optionalSuggestions)
    THEN suggestFrom(guesses, i + 1, optionalSuggestions)
    ELSE suggestFrom(guesses, i + 1, Append(optionalSuggestions, guesses[i]))

\* HunspellEngine::suggest
suggest(guesses, optionalSuggestions) ==
    suggestFrom(guesses, 1, optionalSuggestions)

\* What can end the loop of fillSuggestionList before the engine at index
\* i is asked: a newer request ("newer") or the time limit ("late").
Stops(all) == {<<"none", 0>>} \cup ({"newer", "late"} \X DOMAIN all)

\* The loop of fillSuggestionList over *_engines from the engine at index i.
RECURSIVE fillFrom(_, _, _, _, _, _)
fillFrom(all, i, wrongWord, guesses, optionalSuggestions, stop) ==
    IF i > Len(all) THEN optionalSuggestions
    ELSE IF stop = <<"newer", i>> THEN <<>>
    ELSE IF \/ Len(optionalSuggestions) = kMaxSuggestions
            \/ stop = <<"late", i>>
    THEN optionalSuggestions
    ELSE IF WordScript(wrongWord) # LocaleToScriptCode(all[i])
    THEN fillFrom(all, i + 1, wrongWord, guesses, optionalSuggestions, stop)
    ELSE fillFrom(all, i + 1, wrongWord, guesses,
                  suggest(guesses[all[i]], optionalSuggestions), stop)

\* The number of guesses the engines of the script of the word hold.
RECURSIVE offeredGuesses(_, _, _, _)
offeredGuesses(all, i, wrongWord, guesses) ==
    IF i > Len(all) THEN 0
    ELSE (IF WordScript(wrongWord) = LocaleToScriptCode(all[i])
          THEN Len(guesses[all[i]]) ELSE 0)
         + offeredGuesses(all, i + 1, wrongWord, guesses)

\* HunspellService::fillSuggestionList: customGuesses is what the custom
\* dictionary suggests, guesses[lang] what the engine of lang suggests.
fillSuggestionList(wrongWord, customGuesses, guesses, stop) ==
    /\ engineMutex = 0
    /\ last' = [op |-> "fillSuggestionList",
                arg |-> <<wrongWord, customGuesses,
                          offeredGuesses(engines, 1, wrongWord, guesses),
                          fillFrom(engines, 1, wrongWord, guesses,
                                   Take(customGuesses, kMaxSuggestions),
                                   stop)>>]
    /\ UNCHANGED <<asyncVars, syntaxVars, hlState, langVars, wordVars>>

\* The engines of a service with up to two languages installed.
SuggestEngines == {<<>>, <<"en">>, <<"ru", "en">>, <<"en", "fr">>}

InitSuggest ==
    /\ HighlighterInit({<<>>}, {EvenWords})
    /\ epoch = 0
    /\ engines \in SuggestEngines
    /\ activeLanguages = engines
    /\ tasks = <<>>
    /\ mainQueue = <<>>
    /\ WordsInit

\* One request for a suggestion list, for every word, every list of guesses
\* of the custom dictionary and of the engines and every end of the loop.
NextSuggest ==
    /\ last.op = "init"
    /\ \E wrongWord \in Words : \E customGuesses \in GuessLists :
          \E guesses \in [Range(engines) -> GuessLists] :
            \E stop \in Stops(engines) :
                fillSuggestionList(wrongWord, customGuesses, guesses, stop)

SpecSuggest == InitSuggest /\ [][NextSuggest]_vars

\* A suggestion list was filled to the limit although the custom
\* dictionary gave fewer guesses and the engines more than the limit.
C22_W_ListFilled ==
    /\ last.op = "fillSuggestionList"
    /\ Len(last.arg[2]) \in 1..(kMaxSuggestions - 1)
    /\ last.arg[3] > kMaxSuggestions
    /\ Len(last.arg[4]) = kMaxSuggestions

\* C22: fillSuggestionList returns at most kMaxSuggestions suggestions and
\* no suggestion twice.
C22_SuggestionsCappedAndDistinct ==
    last.op = "fillSuggestionList" =>
        /\ Len(last.arg[4]) <= kMaxSuggestions
        /\ \A i, j \in DOMAIN last.arg[4] :
              i # j => last.arg[4][i] # last.arg[4][j]

----------------------------------------------------------------------------
(* Syntax highlighting of code blocks (SpecSyntax).                        *)

\* The number of TryHighlightSyntax calls of a behaviour.
MaxCalls == 2

\* The number of entities of a text.
MaxEntities == 2

\* The text and the language of a code block.
BlockTexts == {<<"a">>, <<"a", "b">>}
BlockLanguages == {<<>>, <<"c">>, <<"b", "c">>}

\* What a text holds at one place: a Pre entity over a text, with its
\* language as data, or a Colorized entity left by an earlier highlight.
EntityKinds ==
    [type : {"Pre"}, text : BlockTexts, data : BlockLanguages]
        \cup {[type |-> "Colorized", text |-> <<"a">>, data |-> <<>>]}

\* The number of Pre entities among the first n of kinds.
RECURSIVE PreBefore(_, _)
PreBefore(kinds, n) ==
    IF n = 0 THEN 0
    ELSE (IF kinds[n].type = "Pre" THEN 1 ELSE 0) + PreBefore(kinds, n - 1)

\* text.entities: the k-th code block starts at offset 2 * (k - 1), and a
\* Colorized entity starts where the code block before it starts.
EntitiesOf(kinds) ==
    [n \in DOMAIN kinds |->
        [type |-> kinds[n].type,
         offset |-> IF kinds[n].type = "Pre"
                    THEN 2 * PreBefore(kinds, n - 1)
                    ELSE 2 * (IF PreBefore(kinds, n - 1) = 0 THEN 0
                              ELSE PreBefore(kinds, n - 1) - 1),
         length |-> Len(kinds[n].text),
         text |-> kinds[n].text,
         data |-> kinds[n].data]]

TextsWithEntities ==
    {EntitiesOf(kinds) :
        kinds \in UNION {[1..n -> EntityKinds] : n \in 0..MaxEntities}}

\* The checking lambda of TryHighlightSyntax.
checking(entity) == entity.type = "Pre" /\ entity.data # <<>>

\* The XXH64 digest of FindInCache: the characters of the text followed by
\* those of the language.
Hash(entity) == entity.text \o entity.data

\* FindInCache: is the block in Cache.
FindInCache(entity) == Hash(entity) \in DOMAIN Cache

\* std::find_if(i, e, checking); Len + 1 stands for e.
RECURSIVE FindIf(_, _)
FindIf(entities, i) ==
    IF i > Len(entities) THEN i
    ELSE IF checking(entities[i]) THEN i
    ELSE FindIf(entities, i + 1)

\* The entities of list that the loop of Insert inserts: it breaks at the
\* first one that ends after the block.
RECURSIVE Fitting(_, _, _)
Fitting(list, k, length) ==
    IF k > Len(list) THEN <<>>
    ELSE IF list[k].offset + list[k].length > length THEN <<>>
    ELSE <<list[k]>> \o Fitting(list, k + 1, length)

\* Insert(text, i, entities): the entities of the text and the iterator it
\* returns.
Insert(entities, i, list) ==
    LET next == i + 1
        offset == entities[i].offset
        inserted == Fitting(list, 1, entities[i].length)
    IN  IF list = <<>> THEN [entities |-> entities, next |-> next]
        ELSE IF /\ next <= Len(entities)
                /\ entities[next].type = list[1].type
                /\ entities[next].offset = offset + list[1].offset
        THEN [entities |-> entities, next |-> next]
        ELSE [entities |->
                SubSeq(entities, 1, i)
                    \o [k \in DOMAIN inserted |->
                          [inserted[k] EXCEPT !.offset = @ + offset]]
                    \o SubSeq(entities, next, Len(entities)),
              next |-> next + Len(inserted)]

\* A process id that would never be taken.
noProcessId(processId, counter) == 0

\* if (!processId) processId = ++ProcessIdAutoIncrement;
takeProcessId(processId, counter) ==
    IF processId = 0 THEN counter + 1 ELSE processId

\* The loop of TryHighlightSyntax from the iterator i: the entities of the
\* text, the process id, the counter and the requests it scheduled.
RECURSIVE highlightFrom(_, _, _, _, _)
highlightFrom(entities, i, processId, counter, scheduled) ==
    LET j == FindIf(entities, i)
    IN  IF j > Len(entities)
        THEN [entities |-> entities, processId |-> processId,
              counter |-> counter, scheduled |-> scheduled]
        ELSE IF FindInCache(entities[j])
        THEN LET already == Insert(entities, j, Cache[Hash(entities[j])])
             IN  highlightFrom(already.entities, already.next, processId,
                               counter, scheduled)
        ELSE LET id == takeProcessId(processId, counter)
             IN  highlightFrom(entities, j + 1, id,
                    IF id > counter THEN id ELSE counter,
                    Append(scheduled,
                           [task |-> "process", hash |-> Hash(entities[j]),
                            text |-> entities[j].text,
                            language |-> entities[j].data]))

\* TryHighlightSyntax(text)
TryHighlightSyntax(text) ==
    LET done == highlightFrom(text, 1, 0, ProcessIdAutoIncrement, <<>>)
    IN  /\ Len(returned) < MaxCalls
        /\ ProcessIdAutoIncrement' = done.counter
        /\ highlighterTasks' =
              highlighterTasks \o done.scheduled
                  \o (IF done.processId # 0
                      THEN <<[task |-> "notify", id |-> done.processId]>>
                      ELSE <<>>)
        /\ returned' = Append(returned, done.processId)
        /\ calls' = IF done.processId # 0 THEN Append(calls, text)
                    ELSE calls
        /\ last' = [op |-> "TryHighlightSyntax",
                    arg |-> <<text, done.processId, done.entities>>]
        /\ UNCHANGED <<Cache, syntaxMain, hlState, langVars, wordVars,
                       asyncVars>>

\* QueuedHighlighter::process and QueuedHighlighter::notify, for the call
\* at the head of the queue; the tokens cover the text (ok) or not.
HighlighterRun(ok) ==
    /\ highlighterTasks # <<>>
    /\ LET head == Head(highlighterTasks)
       IN  /\ syntaxMain' = Append(syntaxMain,
                IF head.task = "notify" THEN head
                ELSE [task |-> "emplace", hash |-> head.hash,
                      entities |->
                        IF ok
                        THEN <<[type |-> "Colorized", offset |-> 0,
                                length |-> Len(head.text),
                                text |-> head.text, data |-> <<>>]>>
                        ELSE <<>>])
           /\ last' = [op |-> "highlighterRun", arg |-> <<head.task>>]
    /\ highlighterTasks' = Tail(highlighterTasks)
    /\ UNCHANGED <<Cache, ProcessIdAutoIncrement, returned, calls, hlState,
                   langVars, wordVars, asyncVars>>

\* A cache that would take no entry.
noEmplace(cache, hash, entities) == cache

\* Cache.emplace(hash, entities): an entry that exists is left as it is.
emplace(cache, hash, entities) ==
    IF hash \in DOMAIN cache THEN cache
    ELSE [h \in DOMAIN cache \cup {hash} |->
            IF h = hash THEN entities ELSE cache[h]]

\* The crl::on_main call at the head of the queue: Cache.emplace or
\* ReadyStream.fire_copy.
SyntaxMainRun ==
    /\ syntaxMain # <<>>
    /\ LET head == Head(syntaxMain)
       IN  /\ Cache' =
                IF head.task = "emplace"
                THEN emplace(Cache, head.hash, head.entities)
                ELSE Cache
           /\ last' = [op |-> "syntaxMainRun", arg |-> <<head.task>>]
    /\ syntaxMain' = Tail(syntaxMain)
    /\ UNCHANGED <<ProcessIdAutoIncrement, highlighterTasks, returned, calls,
                   hlState, langVars, wordVars, asyncVars>>

NextSyntax ==
    \/ \E text \in TextsWithEntities : TryHighlightSyntax(text)
    \/ \E ok \in BOOLEAN : HighlighterRun(ok)
    \/ SyntaxMainRun

SpecSyntax == InitLang /\ [][NextSyntax]_vars

----------------------------------------------------------------------------
(* Properties of TryHighlightSyntax (SpecSyntax).                          *)

\* The code blocks of a text that are not in Cache, in the order of the
\* text.
MissingBlocks(text) ==
    SelectSeq(text, LAMBDA e : checking(e) /\ Hash(e) \notin DOMAIN Cache)

\* The second call returned a process id after the first one did, for a
\* text with one block in the cache and one block missing.
C23_W_SecondProcessId ==
    /\ last.op = "TryHighlightSyntax"
    /\ Len(returned) = 2
    /\ returned[1] # 0
    /\ returned[2] # 0
    /\ Len(MissingBlocks(last.arg[1])) = 1
    /\ \E n \in DOMAIN last.arg[1] :
          checking(last.arg[1][n]) /\ FindInCache(last.arg[1][n])

\* C23: TryHighlightSyntax returns zero exactly when every code block of
\* the text is in the cache, and then schedules nothing; otherwise it
\* schedules every missing block, then one notification, and returns one
\* non-zero process id that no earlier call returned.
C23_ZeroIffAllCached ==
    [][returned' # returned =>
        LET text == last'.arg[1]
            id == last'.arg[2]
            missing == MissingBlocks(text)
            added == SubSeq(highlighterTasks', Len(highlighterTasks) + 1,
                            Len(highlighterTasks'))
        IN  /\ id = 0 <=> missing = <<>>
            /\ id = 0 => added = <<>>
            /\ id # 0 =>
                /\ id \notin Range(returned)
                /\ Len(added) = Len(missing) + 1
                /\ \A k \in DOMAIN missing :
                      /\ added[k].task = "process"
                      /\ added[k].hash = Hash(missing[k])
                      /\ added[k].text = missing[k].text
                /\ added[Len(added)] = [task |-> "notify", id |-> id]]_vars

----------------------------------------------------------------------------
(* Properties of the filter of contentsChange (Spec).                      *)

\* Where a cached range lies in the buffer after contentsChange(p, removed,
\* added).
RangeAfterEdit(range, p, removed, added) ==
    IF range[1] >= p + removed
    THEN <<range[1] + added - removed, range[2]>>
    ELSE range

\* C24: contentsChange(p, removed, added) on a non-empty buffer removes a
\* range when it overlaps the word under p, unless p is after the end of
\* that word, and removes a range that does not overlap the word when it
\* overlaps the deleted region [p, p + removed); it keeps every other range.
C24_FilterRule ==
    [][(last'.op = "contentsChange" /\ Len(doc') > 0) =>
          LET p == last'.arg[1]
              removed == last'.arg[2]
              added == last'.arg[3]
              wordUnderPos == getWordUnderPosition(doc', p, 0)
              kept == SelectSeq(cachedRanges, LAMBDA range :
                  IF IntersectsWordRanges2(
                        RangeAfterEdit(range, p, removed, added),
                        wordUnderPos)
                  THEN p > EndOfWord(wordUnderPos)
                  ELSE ~(removed > 0
                         /\ IntersectsWordRanges(range, p, removed)))
          IN  cachedRanges' =
                [i \in DOMAIN kept |->
                    RangeAfterEdit(kept[i], p, removed, added)]]_vars

----------------------------------------------------------------------------
(* Properties of the changed-text check (Spec).                            *)

\* The part of the buffer that checkChangedText hands to checkSingleWord or
\* to invokeCheckText; <<0, 0>> when it returns without a check.
changedTextCoverage(d, pos, added, removed, cursor) ==
    LET wordUnderCursor == getWordUnderPosition(d, pos, cursor)
        lastWordNewSelection ==
            getWordUnderPosition(d, pos + added, EndOfWord(wordUnderCursor))
    IN  IF wordUnderCursor[2] = 0 THEN <<0, 0>>
        ELSE IF added > 0
        THEN IF wordUnderCursor = lastWordNewSelection
             THEN wordUnderCursor
             ELSE <<wordUnderCursor[1],
                    EndOfWord(lastWordNewSelection) - wordUnderCursor[1]>>
        ELSE IF removed > 0 THEN wordUnderCursor
        ELSE <<0, 0>>

\* C25: an edit accumulated while the timer was pending is covered by the
\* check that is dispatched: when one typed letter waits for the timer and
\* an insertion then runs the changed-text check within contentsChange, the
\* word or the region that is checked holds the typed letter.
C25_PendingEditCovered ==
    [][(/\ last.op = "contentsChange"
        /\ Len(doc) > 0
        /\ timerActive
        /\ addedSymbols = 1
        /\ removedSymbols = 0
        /\ last.arg[1] = lastPosition
        /\ last'.op = "contentsChange"
        /\ edits' = edits + 1
        /\ last'.arg[2] = 0
        /\ ~IsLetterOrNumber(AddedSymbol(doc', last'.arg[1], last'.arg[3])))
        =>
          LET p == last'.arg[1]
              added == last'.arg[3]
              letter == IF p <= lastPosition THEN lastPosition + added
                        ELSE lastPosition
              checked == changedTextCoverage(doc',
                  changedTextPosition(doc', p, 0, added, lastPosition),
                  changedTextAdded(doc', p, added, addedSymbols),
                  removedSymbols,
                  EndOfWord(getWordUnderPosition(doc', p, 0)))
          IN  checked[1] <= letter /\ letter < EndOfWord(checked)]_vars

----------------------------------------------------------------------------
(* Typing, deleting and pasting (SpecPaste).                               *)

\* The longest text that is pasted.
MaxPaste == 2

\* Every replacement by a text of at most MaxPaste characters, without
\* formatting.
PasteEdit == EditWith(Texts(MaxPaste), {FALSE}, MaxEdits)

NextPaste ==
    \/ PasteEdit
    \/ TimerFire
    \/ KeyOrMousePress
    \/ \E value \in BOOLEAN : setEnabled(value)
    \/ \E c \in BagToSet(inflight) : RegionReturn(c)
    \/ \E c \in BagToSet(inflight) : WordReturn(c)

InitPaste == HighlighterInit(Texts(1), {EvenWords}) /\ LangInit

SpecPaste == InitPaste /\ [][NextPaste]_vars

\* contentsChange left the check to the timer: the timer is pending, the
\* edit is added to the accumulators and no check was dispatched.
DeferredStep ==
    /\ timerActive'
    /\ addedSymbols' = addedSymbols + last'.arg[3]
    /\ removedSymbols' = removedSymbols + last'.arg[2]
    /\ BagCardinality(inflight') = BagCardinality(inflight)

\* contentsChange ran checkChangedText: the accumulators are reset and no
\* timer is pending.
SynchronousStep ==
    /\ ~timerActive'
    /\ addedSymbols' = 0
    /\ removedSymbols' = 0
    /\ lastPosition' = 0

\* The character that the edit inserted is a letter or a digit.
InsertedLetter ==
    /\ last'.arg[3] = 1
    /\ IsLetterOrNumber(doc'[last'.arg[1] + 1])

----------------------------------------------------------------------------
(* Properties of the merge of a region check (Spec).                       *)

\* The ranges of a sequence that lie inside the region of the check c.
InsideRegion(ranges, c) ==
    SelectSeq(ranges, LAMBDA range :
        c.pos <= range[1] /\ EndOfWord(range) <= c.pos + c.len)

\* C27: when the result of a region check that met no edit since its
\* dispatch is merged, the cached ranges inside the checked region are
\* afterwards exactly the returned ranges that are not skippable, in the
\* order of their offsets.
C27_RegionHoldsReturnedRanges ==
    [][(last'.op = "regionReturn" /\ ~last'.arg[1]) =>
          \A c \in BagToSet(inflight) :
              (/\ IsRegion(c)
               /\ ~c.stale
               /\ CopiesIn(c, inflight') < CopiesIn(c, inflight))
              => InsideRegion(cachedRanges', c)
                    = filterSkippableWords(lastPlainText, tags,
                          CheckSpellingText(c.text, c.pos))]_vars

----------------------------------------------------------------------------
(* Properties of the last word of a region check (SpecTyping).             *)

\* How many times a range is in a sequence of ranges.
Occurrences(ranges, range) ==
    Cardinality({i \in DOMAIN ranges : ranges[i] = range})

\* The result of the region check c is accepted, its last range ends at
\* the end of the region and a letter of the buffer follows it.
LastWordExtended(c) ==
    LET filtered == filterSkippableWords(lastPlainText, tags,
                        CheckSpellingText(c.text, c.pos))
        endOfText == c.pos + c.len
    IN  /\ compareDocumentText(lastPlainText, c.text, c.pos, c.len) = 0
        /\ Len(filtered) > 0
        /\ EndOfWord(filtered[Len(filtered)]) = endOfText
        /\ endOfText < Len(doc)
        /\ IsLetterOrNumber(doc[endOfText + 1])

\* A region check returned after the user had typed a letter at the end of
\* its last word: the timer is still pending and the check of the whole
\* word "bb", dispatched by the return, is in flight.
C28_W_WholeWordRechecked ==
    /\ last.op = "regionReturn"
    /\ timerActive
    /\ doc = <<"b", "b">>
    /\ cachedRanges = <<>>
    /\ BagIn(Check("word", 0, 2, <<"b", "b">>), inflight)

\* C28: when an accepted region check returns, its last range ends at the
\* end of the checked region and the word of the buffer goes on after that
\* end, the last range is not inserted and a check of the whole word of the
\* buffer is dispatched.
C28_ExtendedLastWordRechecked ==
    [][last'.op = "regionReturn" =>
          \A c \in BagToSet(inflight) :
              (/\ IsRegion(c)
               /\ CopiesIn(c, inflight') < CopiesIn(c, inflight)
               /\ LastWordExtended(c))
              => LET filtered == filterSkippableWords(lastPlainText, tags,
                                    CheckSpellingText(c.text, c.pos))
                     lastWord == filtered[Len(filtered)]
                     word == LetterRun(doc, c.pos + c.len - 1)
                 IN  /\ Occurrences(cachedRanges', lastWord)
                            <= Occurrences(cachedRanges, lastWord)
                     /\ inflight' = (inflight (-) OneCheck(c))
                            (+) checkSingleWord(lastPlainText, tags, word)
             ]_vars

----------------------------------------------------------------------------
(* Links in a block (SpecUrl).                                             *)

\* The longest block text.
MaxUrlLen == 5

\* kSlashes
kSlashes == <<":", "/", "/">>

\* The block texts: letters, spaces and the characters of "://".
UrlTexts == UNION {[1..k -> {"b", " ", ":", "/"}] : k \in 0..MaxUrlLen}

\* QString::indexOf(kSlashes, from); -1 when there is none.
indexOf(text, from) ==
    LET found == {i \in from..(Len(text) - Len(kSlashes)) :
                     SubSeq(text, i + 1, i + Len(kSlashes)) = kSlashes}
    IN  IF found = {} THEN -1
        ELSE CHOOSE i \in found : \A j \in found : i <= j

\* The first loop of FindUrl: startUrl moves left while it is above 0 and
\* not at a space.
RECURSIVE UrlStart(_, _)
UrlStart(text, startUrl) ==
    IF startUrl > 0 /\ ~IsSpace(text[startUrl + 1])
    THEN UrlStart(text, startUrl - 1) ELSE startUrl

\* The second loop of FindUrl.
RECURSIVE UrlEnd(_, _)
UrlEnd(text, endUrl) ==
    IF endUrl < Len(text) /\ ~IsSpace(text[endUrl + 1])
    THEN UrlEnd(text, endUrl + 1) ELSE endUrl

\* FindUrl(text, index)
FindUrl(text, index) ==
    LET startUrl == UrlStart(text, index - 1) + 1
        endUrl == UrlEnd(text, index + Len(kSlashes))
    IN  <<startUrl, endUrl - startUrl>>

\* The loop of FindUrls from the index i.
RECURSIVE FindUrlsFrom(_, _)
FindUrlsFrom(text, from) ==
    LET i == indexOf(text, from)
    IN  IF i = -1 THEN <<>>
        ELSE IF i > 0 /\ IsLetterOrNumber(text[i])
        THEN LET url == FindUrl(text, i)
             IN  <<url>> \o FindUrlsFrom(text, url[1] + url[2])
        ELSE FindUrlsFrom(text, i + 1)

\* FindUrls(text)
FindUrls(text) == IF text = <<>> THEN <<>> ELSE FindUrlsFrom(text, 0)

\* IntersectsAnyOfRanges(pos, len, ranges)
IntersectsAnyOfRanges(pos, len, ranges) ==
    \E i \in DOMAIN ranges : IntersectsWordRanges(ranges[i], pos, len)

\* SpellingHighlighter::highlightBlock(text) for the only block of the
\* document: the formats it sets, in the order of the cached ranges.
highlightBlock(text) ==
    LET urls == FindUrls(text)
        bPos == 0
        bLen == Len(text) + 1
        inBlock == SelectSeq(cachedRanges, LAMBDA range :
                       IntersectsWordRanges(range, bPos, bLen))
        formats ==
            IF cachedRanges = <<>> \/ ~enabled \/ text = <<>> THEN <<>>
            ELSE SelectSeq(inBlock, LAMBDA range :
                    ~IntersectsAnyOfRanges(range[1] - bPos, range[2], urls))
    IN  /\ last' = [op |-> "highlightBlock", arg |-> <<formats>>]
        /\ UNCHANGED <<asyncVars, syntaxVars, hlState, langVars, wordVars>>

\* A field whose text was checked as a whole: the cached ranges are the
\* words that the dictionary rejects.
InitUrl ==
    /\ doc \in UrlTexts
    /\ dictionary \in {{}, EvenWords}
    /\ tags = [i \in 1..Len(doc) |-> FALSE]
    /\ lastPlainText = doc
    /\ cachedRanges = filterSkippableWords(doc, tags,
                                           CheckSpellingText(doc, 0))
    /\ addedSymbols = 0
    /\ removedSymbols = 0
    /\ lastPosition = 0
    /\ enabled = TRUE
    /\ timerActive = FALSE
    /\ countOfCheckingTextAsync = 0
    /\ inflight = NoCheck
    /\ edits = 0
    /\ last = [op |-> "init", arg |-> <<>>]
    /\ SyntaxInit
    /\ AsyncInit
    /\ LangInit

NextUrl == highlightBlock(doc)

SpecUrl == InitUrl /\ [][NextUrl]_vars

\* The positions of the "://" of a text that follow a letter or a digit.
UrlMarks(text) ==
    {i \in 1..(Len(text) - Len(kSlashes)) :
        /\ SubSeq(text, i + 1, i + Len(kSlashes)) = kSlashes
        /\ IsLetterOrNumber(text[i])}

\* The token around the position i: from the nearest space on its left, or
\* from 0, to the nearest space on its right, or to the end of the text.
Token(text, i) ==
    LET spacesLeft == {j \in 0..(i - 1) : IsSpace(text[j + 1])}
        spacesRight == {j \in i..(Len(text) - 1) : IsSpace(text[j + 1])}
        start == IF spacesLeft = {} THEN 0
                 ELSE 1 + CHOOSE j \in spacesLeft :
                              \A k \in spacesLeft : k <= j
        end == IF spacesRight = {} THEN Len(text)
               ELSE CHOOSE j \in spacesRight : \A k \in spacesRight : j <= k
    IN  <<start, end - start>>

\* C29: for every "://" of the block that follows a letter or a digit, the
\* link found by FindUrl is the token between the nearest spaces around it,
\* from index 0 when no space precedes it, and highlightBlock underlines no
\* cached range that intersects the token.
C29_UrlTokenNotUnderlined ==
    last.op = "highlightBlock" =>
        \A i \in UrlMarks(doc) :
            /\ FindUrl(doc, i) = Token(doc, i)
            /\ \A k \in DOMAIN last.arg[1] :
                  ~IntersectsWordRanges2(last.arg[1][k], Token(doc, i))

----------------------------------------------------------------------------
(* Properties of the caret next to a cached range (Spec).                  *)

\* The range covers one whole word of the text: a longest run of letters.
WholeWord(text, range) ==
    /\ range[2] > 0
    /\ EndOfWord(range) <= Len(text)
    /\ \A k \in (range[1] + 1)..EndOfWord(range) : IsLetterOrNumber(text[k])
    /\ (range[1] = 0 \/ ~IsLetterOrNumber(text[range[1]]))
    /\ (EndOfWord(range) = Len(text)
        \/ ~IsLetterOrNumber(text[EndOfWord(range) + 1]))

----------------------------------------------------------------------------
(* Properties of the accumulators (Spec).                                  *)

\* One letter typed at the position p waits alone for the timer.
OneLetterPending(p) ==
    /\ last.op = "contentsChange"
    /\ last.arg[1] = p
    /\ last.arg[2] = 0
    /\ last.arg[3] = 1
    /\ Len(doc) > 0
    /\ timerActive
    /\ addedSymbols = 1
    /\ removedSymbols = 0

\* C31: letters typed one by one at the positions p and p + 1 leave the
\* pending values (_lastPosition, _addedSymbols, _removedSymbols) at
\* (p, 2, 0), the values that one insertion of two characters at p hands to
\* the changed-text check.
C31_TypingAccumulatesAsPaste ==
    [][\A p \in 0..MaxLen :
          (/\ OneLetterPending(p)
           /\ EditStep
           /\ last'.arg[1] = p + 1
           /\ last'.arg[2] = 0
           /\ InsertedLetter)
          => /\ lastPosition' = p
             /\ addedSymbols' = 2
             /\ removedSymbols' = 0]_vars

----------------------------------------------------------------------------
(* Overlapping requests for a suggestion list (SpecRequests).              *)
(*                                                                         *)
(* fillSuggestionList runs on the threads of crl::async, so several calls  *)
(* can be between their first and their last line at once.  The steps of a *)
(* call are the places where it reads or writes _suggestionsEpoch: the     *)
(* increment, the load, each pass of the loop and the decrement.  A call   *)
(* also records whether a newer call started while it was in the loop      *)
(* (overtaken) and whether it asked an engine after that (askedAfter).     *)

MaxRequests == 3

\* What the custom dictionary and what an engine suggest for the word.
CustomGuessLists == {<<>>, <<1>>}
EngineGuessLists == {<<>>, <<2>>}

\* The engines installed: one of another script than the word, or two of
\* its script.
RequestEngines == {<<"ru", "en">>, <<"en", "fr">>}

\* The calls that are in the loop with an engine still to come.
Iterating ==
    {id \in DOMAIN requests :
        /\ requests[id].pc = "loop"
        /\ requests[id].engine <= Len(engines)}

\* fillSuggestionList up to _suggestionsEpoch++ (lines 308-324).
RequestStart(wrongWord, customGuesses) ==
    /\ last.op # "terminate"
    /\ Len(requests) < MaxRequests
    /\ suggestionsEpoch' = suggestionsEpoch + 1
    /\ requests' =
          Append([id \in DOMAIN requests |->
                    IF id \in Iterating
                    THEN [requests[id] EXCEPT !.overtaken = TRUE]
                    ELSE requests[id]],
                 [wrongWord |-> wrongWord, pc |-> "load", savedEpoch |-> 0,
                  engine |-> 1,
                  optionalSuggestions |->
                      Take(customGuesses, kMaxSuggestions),
                  overtaken |-> FALSE, askedAfter |-> FALSE])
    /\ last' = [op |-> "suggestionStep", arg |-> <<>>]
    /\ UNCHANGED <<accessVars, syntaxVars, hlState, langVars, wordVars>>

\* const auto savedEpoch = _suggestionsEpoch.load() (line 325).
RequestLoad(id) ==
    /\ last.op # "terminate"
    /\ requests[id].pc = "load"
    /\ requests' = [requests EXCEPT ![id].savedEpoch = suggestionsEpoch,
                                    ![id].pc = "loop"]
    /\ last' = [op |-> "suggestionStep", arg |-> <<>>]
    /\ UNCHANGED <<suggestionsEpoch, accessVars, syntaxVars, hlState,
                   langVars, wordVars>>

\* One pass of the loop over *_engines under the shared lock (lines
\* 327-344): guesses is what the engine suggests, late tells that the time
\* limit has passed.
RequestIterate(id, guesses, late) ==
    LET r == requests[id]
    IN  /\ last.op # "terminate"
        /\ r.pc = "loop"
        /\ engineMutex = 0
        /\ requests' = [requests EXCEPT ![id] =
              IF r.engine > Len(engines) THEN [r EXCEPT !.pc = "end"]
              ELSE IF suggestionsEpoch > r.savedEpoch
              THEN [r EXCEPT !.optionalSuggestions = <<>>, !.pc = "end"]
              ELSE IF \/ Len(r.optionalSuggestions) = kMaxSuggestions
                      \/ late
              THEN [r EXCEPT !.pc = "end"]
              ELSE IF WordScript(r.wrongWord)
                        # LocaleToScriptCode(engines[r.engine])
              THEN [r EXCEPT !.engine = r.engine + 1]
              ELSE [r EXCEPT
                      !.optionalSuggestions =
                          suggest(guesses, r.optionalSuggestions),
                      !.engine = r.engine + 1,
                      !.askedAfter = r.askedAfter \/ r.overtaken]]
        /\ last' = [op |-> "suggestionStep", arg |-> <<>>]
        /\ UNCHANGED <<suggestionsEpoch, accessVars, syntaxVars, hlState,
                       langVars, wordVars>>

\* _suggestionsEpoch-- and the return (line 346).
RequestEnd(id) ==
    /\ last.op # "terminate"
    /\ requests[id].pc = "end"
    /\ suggestionsEpoch' = suggestionsEpoch - 1
    /\ requests' = [requests EXCEPT ![id].pc = "done"]
    /\ last' = [op |-> "suggestionStep", arg |-> <<>>]
    /\ UNCHANGED <<accessVars, syntaxVars, hlState, langVars, wordVars>>

\* The languages the settings can ask for while requests run.
RequestLangs == {<<"en">>}

InitRequests ==
    /\ HighlighterInit({<<>>}, {EvenWords})
    /\ epoch = 0
    /\ engines \in RequestEngines
    /\ activeLanguages = engines
    /\ tasks = <<>>
    /\ mainQueue = <<>>
    /\ WordsInit

\* The requests of one word and, once, a change of the languages.
NextRequests ==
    \/ \E customGuesses \in CustomGuessLists :
          RequestStart("ok", customGuesses)
    \/ \E id \in DOMAIN requests : RequestLoad(id)
    \/ \E id \in DOMAIN requests : \E guesses \in EngineGuessLists :
          \E late \in BOOLEAN : RequestIterate(id, guesses, late)
    \/ \E id \in DOMAIN requests : RequestEnd(id)
    \/ \E langs \in RequestLangs :
          /\ tasks = <<>>
          /\ last.op # "terminate"
          /\ updateLanguages(langs)

SpecRequests == InitRequests /\ [][NextRequests]_vars

\* C32: a request that was in the loop when a newer request started asks
\* no further engine and returns an empty suggestion list.
C32_OvertakenRequestDropped ==
    \A id \in DOMAIN requests :
        requests[id].overtaken =>
            /\ ~requests[id].askedAfter
            /\ requests[id].pc \in {"end", "done"} =>
                  requests[id].optionalSuggestions = <<>>

----------------------------------------------------------------------------
(* Pending edits and the debounce timer.                                   *)

\* A handler ran checkChangedText: the timer, or an edit of a buffer that
\* is not empty afterwards and that is not debounced.
ChangedTextStep ==
    \/ last'.op = "timer"
    \/ EditStep /\ ~DebouncedStep

\* The timer fired for a pending edit and its check was dispatched.
C33_W_TimerChecked ==
    /\ last.op = "timer"
    /\ Len(doc) > 0
    /\ BagCardinality(inflight) > 0
    /\ ~timerActive
    /\ addedSymbols = 0

\* C33: while _addedSymbols or _removedSymbols is not zero the debounce
\* timer is armed, and after every changed-text check the three
\* accumulators are zero and the timer is not armed.
C33_PendingEditsScheduled ==
    /\ []((addedSymbols # 0 \/ removedSymbols # 0) => timerActive)
    /\ [][ChangedTextStep => SynchronousStep]_vars

----------------------------------------------------------------------------
(* The end of a full recheck (SpecRecheck).                                *)
(*                                                                         *)
(* The user makes at most MaxEdits edits and presses nothing else.  A      *)
(* crl::async task ends and crl::on_main runs its continuation, and an     *)
(* armed timer fires: each of these steps happens once it stays possible.  *)

NextRecheck ==
    \/ Edit
    \/ TimerFire
    \/ \E c \in BagToSet(inflight) : RegionReturn(c)
    \/ \E c \in BagToSet(inflight) : WordReturn(c)

FairRecheck ==
    /\ WF_vars(TimerFire)
    /\ WF_vars(\E c \in BagToSet(inflight) : RegionReturn(c))
    /\ WF_vars(\E c \in BagToSet(inflight) : WordReturn(c))

SpecRecheck == Init /\ [][NextRecheck]_vars /\ FairRecheck

\* A full check of checkCurrentText has not returned yet.
FullCheckPending == \E c \in BagToSet(inflight) : c.kind = "assign"

\* C34: once the edits have stopped, the full rechecks come to an end: from
\* some moment on no full check is in flight, also when the first one was
\* issued by the constructor.
C34_FullRecheckTerminates == <>[](~FullCheckPending)

----------------------------------------------------------------------------
(* The calls of IsMentionText (SpecMenu).                                  *)
(*                                                                         *)
(* isSkippableWord(position, length) calls IsMentionText(documentText(),   *)
(* position) when no unspellcheckable tag covers the word, and             *)
(* IsMentionText begins with Assert(position < text.size()), which ends    *)
(* the program when it fails.                                              *)

\* The call of isSkippableWord(position, length) passes the assertion of
\* IsMentionText or does not reach it.
MentionCallInside(plain, tg, position, length) ==
    \/ hasUnspellcheckableTag(tg, position, length)
    \/ position < Len(plain)

\* eventFilter on QEvent::ContextMenu and addSpellcheckerActions for the
\* cursor at position: the word is tested with isSkippableWord and, when it
\* is not skippable, looked up in the background for the menu, which
\* changes nothing in the highlighter.
addSpellcheckerActions(position) ==
    LET word == getWordUnderPosition(doc, position, position)
        p == word[1]
        l == word[2]
    IN  /\ enabled
        /\ last.op # "terminate"
        /\ last' =
              IF l # 0 /\ ~MentionCallInside(lastPlainText, tags, p, l)
              THEN [op |-> "terminate", arg |-> <<"IsMentionText">>]
              ELSE [op |-> "contextMenu",
                    arg |-> <<p, l,
                              l = 0 \/ isSkippableWord(lastPlainText, tags,
                                                       p, l)>>]
        /\ UNCHANGED <<hlState, langVars, wordVars, syntaxVars, asyncVars>>

\* The handlers of the highlighter, as long as the program runs.
NextMenu ==
    \/ last.op # "terminate" /\ NextRecheck
    \/ \E position \in 0..Len(doc) : addSpellcheckerActions(position)

SpecMenu == Init /\ [][NextMenu]_vars

\* The words that checkChangedText hands to checkSingleWord.
singleWords(d, pos, added, removed, cursor) ==
    LET wordUnderCursor == getWordUnderPosition(d, pos, cursor)
        lastWordNewSelection ==
            getWordUnderPosition(d, pos + added, EndOfWord(wordUnderCursor))
    IN  IF wordUnderCursor[2] = 0 THEN {}
        ELSE IF added > 0
        THEN IF wordUnderCursor = lastWordNewSelection
             THEN {wordUnderCursor} ELSE {}
        ELSE IF removed > 0 THEN {wordUnderCursor}
        ELSE {}

\* The words that the continuation of the region check c hands to
\* isSkippableWord: the ranges of its result and the trailing word.
returnWords(c) ==
    LET ranges == CheckSpellingText(c.text, c.pos)
        filtered == filterSkippableWords(lastPlainText, tags, ranges)
        endOfText == c.pos + c.len
        word == getWordUnderPosition(doc, endOfText, 0)
    IN  IF compareDocumentText(lastPlainText, c.text, c.pos, c.len) # 0
        THEN {}
        ELSE Range(ranges)
             \cup (IF /\ Len(filtered) > 0
                      /\ EndOfWord(filtered[Len(filtered)]) = endOfText
                      /\ EndOfWord(word) # endOfText
                   THEN {word} ELSE {})

\* The timer and the results that can come next pass the assertion.
PendingCallsInside ==
    /\ timerActive =>
          \A w \in singleWords(doc, lastPosition, addedSymbols,
                               removedSymbols, 0) :
              MentionCallInside(lastPlainText, tags, w[1], w[2])
    /\ \A c \in BagToSet(inflight) :
          IsRegion(c) =>
              \A w \in returnWords(c) :
                  MentionCallInside(lastPlainText, tags, w[1], w[2])

\* C35: the assertion of IsMentionText holds at every call: the position of
\* the word is smaller than the length of the snapshot, for the words of
\* the context menu, of the timer's check, of a returning result and of
\* the trailing-word correction.
C35_MentionPositionInSnapshot ==
    /\ last.op # "terminate"
    /\ PendingCallsInside

----------------------------------------------------------------------------
(* The precondition of updateLanguages.                                    *)

\* A step of updateLanguages, whether its precondition held or not.
UpdateLanguagesStep == last'.op \in {"updateLanguages", "terminate"}

\* C36: at every call of updateLanguages no request for a suggestion list
\* is in progress: _suggestionsEpoch is zero.
C36_NoRequestDuringUpdate ==
    [][UpdateLanguagesStep => suggestionsEpoch = 0]_vars

----------------------------------------------------------------------------
(* The installed engines.                                                  *)

\* C37: the installed collection *engines holds at most one engine of each
\* language.
C37_OneEnginePerLanguage ==
    \A i, j \in DOMAIN engines : engines[i] = engines[j] => i = j

----------------------------------------------------------------------------
(* The pending rebuild and the active languages.                           *)

\* The completion of the rebuild whose saved epoch is the current one.
CurrentCompletion ==
    /\ last'.op = "mainComplete"
    /\ epoch # 0
    /\ tasks[last'.arg[1]].savedEpoch = epoch

\* A rebuild that overlapped another one has completed and published the
\* languages of its engines.
C38_W_RebuildPublished ==
    /\ last.op = "mainComplete"
    /\ epoch = 0
    /\ activeLanguages # <<>>
    /\ Len(tasks) >= 2

\* C38: while the epoch is not zero activeLanguages() is empty; it becomes
\* non-empty only in the main-thread completion of the rebuild whose saved
\* epoch is current, and only that step sets the epoch back to zero.
C38_EmptyWhilePending ==
    /\ [](epoch # 0 => activeLanguages = <<>>)
    /\ [][(activeLanguages = <<>> /\ activeLanguages' # <<>>)
            => CurrentCompletion]_vars
    /\ [][(epoch # 0 /\ epoch' = 0) => CurrentCompletion]_vars

----------------------------------------------------------------------------
(* The accesses to the session word lists (SpecAccess).                    *)
(*                                                                         *)
(* checkSpelling runs on the threads of crl::async; ignoreWord, addWord    *)
(* and removeWord run on the main thread.  None of them takes a lock for   *)
(* _ignoredWords and _addedWords.  A call is between its first and its     *)
(* last step while it is inside a map: std::map::operator[] inserts the    *)
(* entry of a script that has none (creates), and the main thread changes  *)
(* the vector of the word's script (writes).  What a call returns after a  *)
(* data race is not defined: it is any answer.                             *)

MaxLookups == 2

\* The words that ignoreWord and addWord file in this specification.
MaxFiled == 2

\* The words looked up and filed, one of each script.
AccessWords == {"ok", "kot"}

NoAccess ==
    [op |-> "none", word |-> "", creates |-> FALSE, writes |-> FALSE,
     raced |-> FALSE]

\* The map a background call is inside.
LookupMap(l) == IF l.pc \in {"ignored", "added"} THEN l.pc ELSE "none"

\* The map the main thread is inside.
MainMap(main) ==
    IF main.op = "ignoreWord" THEN "ignored"
    ELSE IF main.op \in {"addWord", "removeWord"} THEN "added"
    ELSE "none"

\* The main thread and the background call l are inside the same map and
\* one of them writes what the other one uses.
MainRaces(main, l) ==
    /\ LookupMap(l) # "none"
    /\ LookupMap(l) = MainMap(main)
    /\ \/ l.creates
       \/ main.creates
       \/ main.writes /\ WordScript(main.word) = WordScript(l.word)

\* Two background calls are inside the same map and one inserts an entry.
LookupsRace(l, m) ==
    /\ LookupMap(l) # "none"
    /\ LookupMap(l) = LookupMap(m)
    /\ l.creates \/ m.creates

\* The background call at index i takes part in a data race.
Races(ls, main, i) ==
    \/ MainRaces(main, ls[i])
    \/ \E j \in DOMAIN ls : j # i /\ LookupsRace(ls[i], ls[j])

DataRace(ls, main) == \E i \in DOMAIN ls : Races(ls, main, i)

\* The calls, each marked when it takes part in a data race.
markRaced(ls, main) ==
    [i \in DOMAIN ls |->
        [ls[i] EXCEPT !.raced = @ \/ Races(ls, main, i)]]

markMain(ls, main) ==
    [main EXCEPT !.raced = @ \/ \E i \in DOMAIN ls : MainRaces(main, ls[i])]

\* checkSpelling on a background thread enters _ignoredWords[wordScript].
LookupStart(word) ==
    LET entry == <<"ignored", WordScript(word)>>
        ls == Append(lookups,
                [word |-> word, pc |-> "ignored",
                 creates |-> entry \notin wordEntries,
                 raced |-> FALSE, result |-> FALSE])
    IN  /\ last.op # "terminate"
        /\ Len(lookups) < MaxLookups
        /\ lookups' = markRaced(ls, mainAccess)
        /\ mainAccess' = markMain(ls, mainAccess)
        /\ wordEntries' = wordEntries \cup {entry}
        /\ last' = [op |-> "lookup", arg |-> <<>>]
        /\ UNCHANGED <<suggestionsEpoch, requests, syntaxVars, hlState,
                       langVars, wordVars>>

\* The call leaves the map it is inside (lines 288-293) or asks the
\* engines (lines 294-304); answer is what it returns after a data race.
LookupStep(id, answer) ==
    LET l == lookups[id]
        wordScript == WordScript(l.word)
        entry == <<"added", wordScript>>
        found == IF l.pc = "ignored"
                 THEN l.word \in Range(ignoredWords[wordScript])
                 ELSE l.word \in Range(addedWords[wordScript])
        next ==
            IF l.pc = "engines"
            THEN [l EXCEPT !.pc = "done",
                           !.result = anyEngineSpells(engines, 1, l.word)]
            ELSE IF l.raced
            THEN [l EXCEPT !.pc = "done", !.creates = FALSE,
                           !.result = answer]
            ELSE IF found
            THEN [l EXCEPT !.pc = "done", !.creates = FALSE,
                           !.result = TRUE]
            ELSE IF l.pc = "ignored"
            THEN [l EXCEPT !.pc = "added",
                           !.creates = entry \notin wordEntries]
            ELSE [l EXCEPT !.pc = "engines", !.creates = FALSE]
        ls == [lookups EXCEPT ![id] = next]
    IN  /\ last.op # "terminate"
        /\ l.pc \in {"ignored", "added", "engines"}
        /\ l.pc = "engines" => engineMutex = 0
        /\ (l.pc = "engines" \/ ~l.raced) => answer = FALSE
        /\ lookups' = markRaced(ls, mainAccess)
        /\ mainAccess' = markMain(ls, mainAccess)
        /\ wordEntries' = IF next.pc = "added"
                          THEN wordEntries \cup {entry}
                          ELSE wordEntries
        /\ last' = [op |-> "lookup", arg |-> <<>>]
        /\ UNCHANGED <<suggestionsEpoch, requests, syntaxVars, hlState,
                       langVars, wordVars>>

\* ignoreWord, addWord or removeWord on the main thread enters its map.
MainBegin(op, word) ==
    LET counted == op = "addWord"
                   /\ addedCount > kMaxSyncableDictionaryWords
        entry == <<IF op = "ignoreWord" THEN "ignored" ELSE "added",
                   WordScript(word)>>
        main == [op |-> op, word |-> word,
                 creates |-> ~counted /\ entry \notin wordEntries,
                 writes |-> ~counted, raced |-> FALSE]
    IN  /\ last.op # "terminate"
        /\ mainAccess.op = "none"
        /\ op # "removeWord" =>
              Len(ignoredWords["Latin"]) + Len(ignoredWords["Cyrillic"])
                  + addedCount < MaxFiled
        /\ mainAccess' = markMain(lookups, main)
        /\ lookups' = markRaced(lookups, main)
        /\ wordEntries' = IF counted THEN wordEntries
                          ELSE wordEntries \cup {entry}
        /\ last' = [op |-> "mainBegin", arg |-> <<>>]
        /\ UNCHANGED <<suggestionsEpoch, requests, syntaxVars, hlState,
                       langVars, wordVars>>

\* The main thread changes the vector and leaves the map; after a data
\* race the program may end instead (failed).
MainEnd(opened, failed) ==
    LET word == mainAccess.word
        appended == [addedWords EXCEPT
                        ![WordScript(word)] = Append(@, word)]
        erased == [addedWords EXCEPT
                      ![WordScript(word)] =
                          SelectSeq(@, LAMBDA w : w # word)]
    IN  /\ last.op # "terminate"
        /\ mainAccess.op # "none"
        /\ failed => mainAccess.raced
        /\ mainAccess' = NoAccess
        /\ UNCHANGED <<lookups, wordEntries, engineMutex>>
        /\ IF failed
           THEN /\ last' = [op |-> "terminate", arg |-> <<mainAccess.op>>]
                /\ UNCHANGED <<ignoredWords, addedWords, customFile>>
           ELSE /\ last' = [op |-> mainAccess.op, arg |-> <<word>>]
                /\ ignoredWords' =
                      IF mainAccess.op = "ignoreWord"
                      THEN [ignoredWords EXCEPT
                              ![WordScript(word)] = Append(@, word)]
                      ELSE ignoredWords
                /\ addedWords' =
                      IF mainAccess.op = "addWord" /\ mainAccess.writes
                      THEN appended
                      ELSE IF mainAccess.op = "removeWord" THEN erased
                      ELSE addedWords
                /\ customFile' =
                      IF mainAccess.op = "addWord" /\ mainAccess.writes
                      THEN writeToFile(appended, opened)
                      ELSE IF mainAccess.op = "removeWord"
                      THEN writeToFile(erased, opened)
                      ELSE customFile
        /\ UNCHANGED <<suggestionsEpoch, requests, syntaxVars, hlState,
                       langVars>>

InitAccess ==
    /\ HighlighterInit({<<>>}, {EvenWords})
    /\ epoch = 0
    /\ engines = <<"en">>
    /\ activeLanguages = engines
    /\ tasks = <<>>
    /\ mainQueue = <<>>
    /\ WordsInit

NextAccess ==
    \/ \E word \in AccessWords : LookupStart(word)
    \/ \E id \in DOMAIN lookups : \E answer \in BOOLEAN :
          LookupStep(id, answer)
    \/ \E op \in {"ignoreWord", "addWord", "removeWord"} :
          \E word \in AccessWords : MainBegin(op, word)
    \/ \E opened \in BOOLEAN : \E failed \in BOOLEAN :
          MainEnd(opened, failed)

SpecAccess == InitAccess /\ [][NextAccess]_vars

\* C39: no two threads are inside a word list at once with one of them
\* writing it: neither a background checkSpelling and a main-thread
\* ignoreWord, addWord or removeWord, nor two background calls of which one
\* creates the entry of a script.
C39_NoDataRaceOnWordLists == ~DataRace(lookups, mainAccess)

----------------------------------------------------------------------------
(* The notification of a finished highlight (SpecSyntax).                  *)

\* ReadyStream fires: HighlightReady emits the process id at the head of
\* the main queue.
ReadyFires ==
    /\ last'.op = "syntaxMainRun"
    /\ last'.arg[1] = "notify"

\* A process id was emitted for a call that scheduled a block, and the
\* cache holds a block whose tokenization failed.
C40_W_ReadyAfterFailedBlock ==
    /\ last.op = "syntaxMainRun"
    /\ last.arg[1] = "notify"
    /\ \E h \in DOMAIN Cache : Cache[h] = <<>>
    /\ \E id \in DOMAIN calls : \E n \in DOMAIN calls[id] :
          checking(calls[id][n])

\* C40: when HighlightReady emits a process id, every code block of the
\* text of that call is in the cache, so TryHighlightSyntax on the same
\* text would then schedule nothing and return zero.
C40_CacheFilledWhenReady ==
    [][ReadyFires =>
        LET text == calls[Head(syntaxMain).id]
            again == highlightFrom(text, 1, 0, ProcessIdAutoIncrement, <<>>)
        IN  /\ \A n \in DOMAIN text :
                  checking(text[n]) => Hash(text[n]) \in DOMAIN Cache'
            /\ Cache' = Cache
            /\ again.scheduled = <<>>
            /\ again.processId = 0]_vars

====
